---------------------------- MODULE Spec2Model ----------------------------
(***************************************************************************)
(* Model of the ingestion core of Enterprise-Knowledge-RAG:                *)
(*   - the text chunker     (aws-stepfunctions/lambdas/chunk_text.py)      *)
(*   - the chunk identifier (chunk_text.py, Airflow indexer.py)            *)
(*   - the vector writer    (aws-stepfunctions/lambdas/store_vectors.py)   *)
(*   - the Airflow pipeline (Airflow/processing_logic/indexer.py)          *)
(* Strings are sequences of one-character strings.  Each component has its *)
(* own variables and its own specification; the variables of the other     *)
(* components stay at their idle values.                                   *)
(***************************************************************************)
EXTENDS Integers, Sequences, FiniteSets, TLC

(* ------------------------------ bounds -------------------------------- *)
MaxTextLen == 5

MaxChunkSize == 3

MaxOverlap == 3

(* --------------------------- string helpers --------------------------- *)
\* the characters input texts are drawn from
Alphabet == {"a", " ", "\n", "."}

\* the characters str.strip() removes (those of them in Alphabet)
Whitespace == {" ", "\n"}

SetMin(S) == CHOOSE x \in S : \A y \in S : x <= y

SetMax(S) == CHOOSE x \in S : \A y \in S : x >= y

MinOf(a, b) == IF a <= b THEN a ELSE b

MaxOf(a, b) == IF a >= b THEN a ELSE b

\* s[lo-1:hi] of Python with 1-based inclusive bounds, clipped to the string
Slice(s, lo, hi) ==
    LET l == MaxOf(lo, 1)
        h == MinOf(hi, Len(s))
    IN  IF l > h THEN <<>> ELSE SubSeq(s, l, h)

\* str.strip(): leading and trailing whitespace removed
Strip(s) ==
    LET keep == {i \in 1..Len(s) : s[i] \notin Whitespace}
    IN  IF keep = {} THEN <<>> ELSE SubSeq(s, SetMin(keep), SetMax(keep))

\* `sep in s`
Contains(s, sep) ==
    \E i \in 1..(Len(s) - Len(sep) + 1) : SubSeq(s, i, i + Len(sep) - 1) = sep

\* position of the first occurrence of sep in s (sep occurs in s)
FirstIndex(s, sep) ==
    SetMin({i \in 1..(Len(s) - Len(sep) + 1) : SubSeq(s, i, i + Len(sep) - 1) = sep})

\* str.split(sep) for a non-empty sep: left to right, non-overlapping
RECURSIVE Split(_, _)
Split(s, sep) ==
    IF ~Contains(s, sep) THEN <<s>>
    ELSE LET k == FirstIndex(s, sep)
         IN  <<Slice(s, 1, k - 1)>> \o Split(Slice(s, k + Len(sep), Len(s)), sep)

\* s[-n:] of Python for n > 0: the last min(n, len(s)) characters
LastChars(s, n) == Slice(s, Len(s) - n + 1, Len(s))

(* ------------------------------ variables ----------------------------- *)
\* TextChunker: the arguments, locals and result of
\* recursive_character_text_split, and its position
VARIABLES text, chunk_size, chunk_overlap, separator, splits, split_idx,
          current_chunk, win_i, out_chunks, ck_pc

\* ChunkIdentifier: the requests (document key, index, chunk text) and the
\* string each one hands to the digest
VARIABLES id_reqs, id_out

\* store_vectors.lambda_handler, per invocation: the event's chunks, the
\* batch size, the loop position, the counters, the log of the batches, the
\* success rate once computed (-1 before), the position; and, shared, the
\* Qdrant collection
VARIABLES sv_chunks, batch_size, batch_idx, stored_count, failed_count,
          batch_log, sv_rate, sv_pc, collection_exists, points

\* run_indexing_pipeline: the bucket, the run's locals, the Qdrant
\* collection, the log of the run's batches and the record of past runs
VARIABLES source, processed, file_keys, filtered_chunks, ix_i, ix_move,
          ix_points, ix_log, ix_pc, run_hist

\* generate_embeddings.lambda_handler: the event's chunks, the batch size,
\* the loop position, the result so far, the inputs of the calls made to the
\* embedding API, the position
VARIABLES ge_chunks, ge_batch_size, ge_batch_idx, chunks_with_embeddings,
          ge_calls, ge_pc

\* the chat handlers (aws_lambda lambda_handler, fastapi chat_handler): the
\* service instance kept between invocations, the handler that runs, its
\* event, what the collection holds for the query, the search result, the
\* contexts given to the chat completion, the exception caught, the
\* response, the position and the number of invocations
VARIABLES rag_service, ch_app, ch_event, ch_hits, ch_sources, ch_llm_ctx,
          ch_exc, ch_response, ch_pc, ch_calls

\* aws_lambda health_check_handler: whether the module's global name time is
\* bound, the two module-level clients (FALSE for None), the health_status
\* dictionary, what each probe call did, the response, the position and the
\* number of invocations
VARIABLES time_bound, openai_client, qdrant_client, health_status, hc_probes, hc_response, hc_pc, hc_calls

\* list_documents and move_processed (aws-stepfunctions): the keys of the
\* bucket, the keys ever uploaded, the source keys a move has copied; of the
\* move that runs, its event's key, whether its context has a request id,
\* its timestamp, its processed_key, whether its local name time is bound and
\* its position; of the last listing, the keys of new_documents, how it
\* ended; the numbers of moves and of listings
VARIABLES bucket, uploaded, copied, document_key, has_request_id, timestamp, processed_key, time_local, mv_pc, new_documents, ld_exit, mv_calls, ld_calls

\* the chat_history table (fastapi_app models.ChatHistory) and its two
\* functions: the rows in the order of their insertion, the clock in whole
\* seconds, the conversation and the result of the last get_chat_history
VARIABLES db_rows, now, hist_conv, chat_history

\* the FastAPI chat_handler: the Redis response cache (standalone question ->
\* answer, "nil" for no entry), the standalone question of the request, what
\* its read of the cache returned, and the calls it has made to the
\* database, Redis, OpenAI and Qdrant
VARIABLES redis_cache, standalone_question, cached_response, fa_trace

ckvars == <<text, chunk_size, chunk_overlap, separator, splits, split_idx,
            current_chunk, win_i, out_chunks, ck_pc>>

idvars == <<id_reqs, id_out>>

svvars == <<sv_chunks, batch_size, batch_idx, stored_count, failed_count,
            batch_log, sv_rate, sv_pc, collection_exists, points>>

ixvars == <<source, processed, file_keys, filtered_chunks, ix_i, ix_move,
            ix_points, ix_log, ix_pc, run_hist>>

gevars == <<ge_chunks, ge_batch_size, ge_batch_idx, chunks_with_embeddings,
            ge_calls, ge_pc>>

chvars == <<rag_service, ch_app, ch_event, ch_hits, ch_sources, ch_llm_ctx,
            ch_exc, ch_response, ch_pc, ch_calls>>

hcvars == <<time_bound, openai_client, qdrant_client, health_status, hc_probes, hc_response, hc_pc, hc_calls>>

mvvars == <<bucket, uploaded, copied, document_key, has_request_id, timestamp, processed_key, time_local, mv_pc, new_documents, ld_exit, mv_calls, ld_calls>>

dbvars == <<db_rows, now, hist_conv, chat_history>>

favars == <<redis_cache, standalone_question, cached_response, fa_trace>>

vars == <<ckvars, idvars, svvars, ixvars, gevars, chvars, hcvars, mvvars, dbvars, favars>>

(* ----------------------------- TextChunker ---------------------------- *)

\* the separators in order of preference; the last one is the empty string
separators ==
    << <<"\n", "\n">>, <<"\n">>, <<".", " ">>, <<"!", " ">>, <<"?", " ">>,
       <<";", " ">>, <<":", " ">>, <<" ">>, <<>> >>

\* the first separator the loop accepts: non-empty and present in the text
UsableSeparators(t) ==
    {k \in 1..Len(separators) : separators[k] /= <<>> /\ Contains(t, separators[k])}

split_without_sep(sp, sep, i) == sp[i]

\* split + separator, except for the last split
split_with_sep(sp, sep, i) ==
    IF i < Len(sp) THEN sp[i] \o sep ELSE sp[i]

overlap_text_trimmed(cur, ov) ==
    IF ov > 0 /\ cur /= <<>> THEN LastChars(Strip(cur), ov) ELSE <<>>

\* the text the next chunk buffer is seeded with on overflow
overlap_text(cur, ov) ==
    IF ov > 0 /\ cur /= <<>> THEN LastChars(cur, ov) ELSE <<>>

emit_any(cs, buf) ==
    IF buf /= <<>> THEN Append(cs, buf) ELSE cs

\* a chunk is appended only when it is not blank, and it is appended trimmed
emit(cs, buf) ==
    IF Strip(buf) /= <<>> THEN Append(cs, Strip(buf)) ELSE cs

TextsUpTo(n) == UNION {[1..k -> Alphabet] : k \in 0..n}

\* the variables of the other components
ck_others == <<idvars, svvars, ixvars, gevars, chvars, hcvars, mvvars, dbvars, favars>>

\* recursive_character_text_split up to the choice of the path (lines 118-136
\* and 169-171): blank text, short text, separator path, character fallback
Split_Start ==
    /\ ck_pc = "start"
    /\ IF Strip(text) = <<>>
       THEN /\ ck_pc' = "done"
            /\ out_chunks' = <<>>
            /\ UNCHANGED <<separator, splits, split_idx>>
       ELSE IF Len(text) <= chunk_size
       THEN /\ ck_pc' = "done"
            /\ out_chunks' = <<text>>
            /\ UNCHANGED <<separator, splits, split_idx>>
       ELSE IF UsableSeparators(text) /= {}
       THEN /\ separator' = separators[SetMin(UsableSeparators(text))]
            /\ splits' = Split(text, separator')
            /\ split_idx' = 1
            /\ ck_pc' = "sep"
            /\ UNCHANGED out_chunks
       ELSE \* range(0, len(text), chunk_size - chunk_overlap)
            /\ ck_pc' = IF chunk_size - chunk_overlap = 0 THEN "raised"
                        ELSE IF chunk_size - chunk_overlap < 0 THEN "done"
                        ELSE "window"
            /\ UNCHANGED <<separator, splits, split_idx, out_chunks>>
    /\ UNCHANGED <<text, chunk_size, chunk_overlap, current_chunk, win_i>>
    /\ UNCHANGED ck_others

\* one iteration of the loop over the splits (lines 140-161)
Sep_Step ==
    /\ ck_pc = "sep"
    /\ split_idx <= Len(splits)
    /\ LET piece == split_with_sep(splits, separator, split_idx)
       IN  IF Len(current_chunk \o piece) <= chunk_size
           THEN /\ current_chunk' = current_chunk \o piece
                /\ UNCHANGED out_chunks
           ELSE /\ out_chunks' = emit(out_chunks, current_chunk)
                /\ current_chunk' = overlap_text(current_chunk, chunk_overlap) \o piece
    /\ split_idx' = split_idx + 1
    /\ UNCHANGED <<text, chunk_size, chunk_overlap, separator, splits, win_i, ck_pc>>
    /\ UNCHANGED ck_others

\* after the loop: the last chunk (lines 163-167)
Sep_Finish ==
    /\ ck_pc = "sep"
    /\ split_idx > Len(splits)
    /\ out_chunks' = emit(out_chunks, current_chunk)
    /\ ck_pc' = "done"
    /\ UNCHANGED <<text, chunk_size, chunk_overlap, separator, splits, split_idx,
                   current_chunk, win_i>>
    /\ UNCHANGED ck_others

\* one window of the character fallback (lines 171-174)
Window_Step ==
    /\ ck_pc = "window"
    /\ win_i < Len(text)
    /\ out_chunks' = emit(out_chunks, Slice(text, win_i + 1, win_i + chunk_size))
    /\ win_i' = win_i + (chunk_size - chunk_overlap)
    /\ UNCHANGED <<text, chunk_size, chunk_overlap, separator, splits, split_idx,
                   current_chunk, ck_pc>>
    /\ UNCHANGED ck_others

Window_Finish ==
    /\ ck_pc = "window"
    /\ win_i >= Len(text)
    /\ ck_pc' = "done"
    /\ UNCHANGED <<text, chunk_size, chunk_overlap, separator, splits, split_idx,
                   current_chunk, win_i, out_chunks>>
    /\ UNCHANGED ck_others

ChunkNext == Split_Start \/ Sep_Step \/ Sep_Finish \/ Window_Step \/ Window_Finish

(* --------------------------- ChunkIdentifier -------------------------- *)
MaxIndex == 1

PrefixLen == 50

Digits == <<"0", "1", "2", "3", "4", "5", "6", "7", "8", "9">>

\* an int formatted by an f-string: its decimal digits
RECURSIVE Dec(_)
Dec(n) == IF n < 10 THEN <<Digits[n + 1]>>
          ELSE Dec(n \div 10) \o <<Digits[(n % 10) + 1]>>

\* key.split('/')[-1] and, for these keys, os.path.basename(key)
BaseName(key) == LET parts == Split(key, <<"/">>) IN parts[Len(parts)]

\* chunk_text[:50]
content_prefix(t) == Slice(t, 1, PrefixLen)

AlnumChars ==
    {"0", "1", "2", "3", "4", "5", "6", "7", "8", "9",
     "a", "b", "c", "d", "e", "f", "g", "h", "i", "j", "k", "l", "m",
     "n", "o", "p", "q", "r", "s", "t", "u", "v", "w", "x", "y", "z"}

\* a file name with every non-alphanumeric character replaced by the filler
Sanitized(name, filler) ==
    [k \in 1..Len(name) |-> IF name[k] \in AlnumChars THEN name[k] ELSE filler]

content_hash_sanitized(filename, i, chunk_text) ==
    Sanitized(filename, "_") \o <<"-">> \o Dec(i) \o <<"-">> \o content_prefix(chunk_text)

\* the string given to hashlib.md5: f"{filename}-{i}-{chunk_text[:50]}".
\* The digest and uuid5 are taken to be injective, so the identifier is
\* modelled by this string.
content_hash(filename, i, chunk_text) ==
    filename \o <<"-">> \o Dec(i) \o <<"-">> \o content_prefix(chunk_text)

Long50 == [k \in 1..PrefixLen |-> "a"]

IdKeys ==
    { <<"s", "o", "u", "r", "c", "e", "/", "a", ".", "p", "d", "f">>,
      <<"s", "o", "u", "r", "c", "e", "/", "a", ".", "p", "d", "f", "-", "1", "-", "b", ".", "p", "d", "f">>,
      <<"s", "o", "u", "r", "c", "e", "/", "s", "u", "b", "/", "a", ".", "p", "d", "f">>,
      <<"s", "o", "u", "r", "c", "e", "/", "m", "y", "-", "d", "o", "c", ".", "p", "d", "f">> }

IdTexts ==
    { <<"x">>, <<"y">>, <<"b", ".", "p", "d", "f", "-", "0", "-", "x">>,
      Long50 \o <<"x">>, Long50 \o <<"y">> }

IdRequests == [key : IdKeys, i : 0..MaxIndex, text : IdTexts]

\* one pass of the loop that gives each chunk its identifier
\* (chunk_text.py lines 50-53, indexer.py lines 223-227)
Derive_Id ==
    /\ Len(id_out) < Len(id_reqs)
    /\ LET r == id_reqs[Len(id_out) + 1]
       IN  id_out' = Append(id_out, content_hash(BaseName(r.key), r.i, r.text))
    /\ UNCHANGED id_reqs
    /\ UNCHANGED <<ckvars, svvars, ixvars, gevars, chvars, favars, dbvars, mvvars, hcvars>>

(* --------------------------- VectorStoreWriter ------------------------ *)
MaxRecords == 5

MaxBatch == 2

\* the invocations of store_vectors.lambda_handler
\* chunks of the document that two invocations store at the same time
MaxShared == 3

SvRuns == {1, 2}

StoreKey == <<"s", "o", "u", "r", "c", "e", "/", "a", ".", "p", "d", "f">>

\* the text of the k-th chunk of the stored document
ChunkTextOf(k) == <<"t">> \o Dec(k)

\* the chunk objects chunk_text.lambda_handler builds (lines 49-77): the k-th
\* chunk gets index k-1 and the identifier derived from it
chunk_objects(key, chunks) ==
    [k \in 1..Len(chunks) |->
        [id |-> content_hash(BaseName(key), k - 1, chunks[k]),
         text |-> chunks[k],
         chunk_index |-> k - 1]]

StoreEvents ==
    {chunk_objects(StoreKey, [k \in 1..n |-> ChunkTextOf(k)]) : n \in 0..MaxRecords}

Upsert_clobber(store, batch) ==
    LET ids == {batch[k].id : k \in 1..Len(batch)}
        last(x) == SetMax({k \in 1..Len(batch) : batch[k].id = x})
    IN  [x \in ids |-> batch[last(x)].text]

\* qdrant_client.upsert: insert or replace by identifier
Upsert(store, batch) ==
    LET ids == {batch[k].id : k \in 1..Len(batch)}
        last(x) == SetMax({k \in 1..Len(batch) : batch[k].id = x})
    IN  [x \in (DOMAIN store) \cup ids |->
            IF x \in ids THEN batch[last(x)].text ELSE store[x]]

\* what one pass of the batch loop can meet: the upsert reports completion,
\* it returns another status, building the points raises, the upsert raises
BatchOutcomes == {"completed", "unexpected_status", "build_exception", "upsert_exception"}

\* whether the points of a batch with this outcome may have reached the store
MayWrite(o) == o \in {"completed", "unexpected_status", "upsert_exception"}

MustWrite(o) == o = "completed"

failed_increment_exceptions_only(o, n) ==
    IF o \in {"build_exception", "upsert_exception"} THEN n ELSE 0

\* what a batch of n chunks adds to failed_count: n in the else branch of
\* the status test and in both except clauses (lines 118-120, 129, 135)
failed_increment(o, n) == IF o = "completed" THEN 0 ELSE n

after_batch_failfast(o) ==
    IF o \in {"build_exception", "upsert_exception"} THEN "raised_batch" ELSE "loop"

\* where the handler goes after a batch: both except clauses end in
\* `continue` (lines 127-138)
after_batch(o) == "loop"

success_rate_vacuous(stored, total) ==
    IF total > 0 THEN (stored * 100) \div total ELSE 100

\* (stored_count / len(chunks)) * 100 if chunks else 0, as a whole percentage
\* (the comparison with 80 is the same on the float and on its floor)
success_rate(stored, total) ==
    IF total > 0 THEN (stored * 100) \div total ELSE 0

storage_failed_le(rate) == rate <= 80

\* if success_rate < 80: raise (line 155)
storage_failed(rate) == rate < 80


sv_others == <<ckvars, idvars, ixvars, gevars, chvars, hcvars, mvvars, dbvars, favars>>

\* get_collections and the membership test (lines 46-50, 64-69)
Sv_CheckCollection(r) ==
    /\ sv_pc[r] = "setup"
    /\ \E ok \in BOOLEAN :
         sv_pc' = [sv_pc EXCEPT ![r] =
                     IF ~ok THEN "raised_setup"
                     ELSE IF collection_exists THEN "loop" ELSE "create"]
    /\ UNCHANGED <<sv_chunks, batch_size, batch_idx, stored_count, failed_count,
                   batch_log, sv_rate, collection_exists, points>>
    /\ UNCHANGED sv_others

\* create_collection (lines 51-63, 67-69): it raises when the call fails and
\* when the collection exists by now; the handler raises "Failed to setup
\* Qdrant collection" in both cases, and the position keeps which it was
Sv_CreateCollection(r) ==
    /\ sv_pc[r] = "create"
    /\ \E ok \in BOOLEAN :
         IF ok /\ ~collection_exists
         THEN /\ collection_exists' = TRUE
              /\ sv_pc' = [sv_pc EXCEPT ![r] = "loop"]
         ELSE /\ sv_pc' = [sv_pc EXCEPT ![r] =
                            IF ok THEN "raised_conflict" ELSE "raised_setup"]
              /\ UNCHANGED collection_exists
    /\ UNCHANGED <<sv_chunks, batch_size, batch_idx, stored_count, failed_count,
                   batch_log, sv_rate, points>>
    /\ UNCHANGED sv_others

\* one pass of the batch loop (lines 76-138)
Sv_Batch(r) ==
    /\ sv_pc[r] = "loop"
    /\ batch_idx[r] < Len(sv_chunks[r])
    /\ LET batch_chunks == Slice(sv_chunks[r], batch_idx[r] + 1,
                                 batch_idx[r] + batch_size[r])
       IN  \E o \in BatchOutcomes, written \in BOOLEAN :
             /\ written => MayWrite(o)
             /\ MustWrite(o) => written
             /\ points' = IF written THEN Upsert(points, batch_chunks) ELSE points
             /\ stored_count' = [stored_count EXCEPT ![r] =
                   IF o = "completed" THEN @ + Len(batch_chunks) ELSE @]
             /\ failed_count' = [failed_count EXCEPT ![r] =
                   @ + failed_increment(o, Len(batch_chunks))]
             /\ batch_log' = [batch_log EXCEPT ![r] =
                   Append(@, [idx |-> batch_idx[r], size |-> Len(batch_chunks),
                              outcome |-> o])]
             /\ sv_pc' = [sv_pc EXCEPT ![r] = after_batch(o)]
    /\ batch_idx' = [batch_idx EXCEPT ![r] = @ + batch_size[r]]
    /\ UNCHANGED <<sv_chunks, batch_size, sv_rate, collection_exists>>
    /\ UNCHANGED sv_others

\* after the loop (lines 140-175): the success rate decides between the
\* result and the storage failure
Sv_Finish(r) ==
    /\ sv_pc[r] = "loop"
    /\ batch_idx[r] >= Len(sv_chunks[r])
    /\ sv_rate' = [sv_rate EXCEPT ![r] =
                      success_rate(stored_count[r], Len(sv_chunks[r]))]
    /\ sv_pc' = [sv_pc EXCEPT ![r] =
          IF storage_failed(sv_rate'[r]) THEN "raised_storage" ELSE "returned"]
    /\ UNCHANGED <<sv_chunks, batch_size, batch_idx, stored_count, failed_count,
                   batch_log, collection_exists, points>>
    /\ UNCHANGED sv_others

StoreNext ==
    \E r \in SvRuns :
        \/ Sv_CheckCollection(r)
        \/ Sv_CreateCollection(r)
        \/ Sv_Batch(r)
        \/ Sv_Finish(r)

(* --------------------------- EmbeddingBatcher ------------------------- *)
MaxEmbChunks == 45

MaxEmbBatch == 30

\* the events generate_embeddings receives: the chunk objects of a document
EmbedEvents ==
    {chunk_objects(StoreKey, [k \in 1..n |-> ChunkTextOf(k)]) : n \in 0..MaxEmbChunks}

\* the vector the embedding API gives for a text: a function of the text
Embedding(t) == <<"e">> \o t

batch_slice_overlap(chunks, idx, b) == Slice(chunks, idx, idx + b)

\* batch_chunks = chunks[batch_idx:batch_idx + batch_size] (line 51)
batch_slice(chunks, idx, b) == Slice(chunks, idx + 1, idx + b)

\* texts_to_embed (line 58)
texts_to_embed(batch) == [k \in 1..Len(batch) |-> batch[k].text]

\* lines 67-81: the chunks of the batch, each with the embedding found at its
\* position in the response
with_embeddings(batch, data) ==
    [k \in 1..Len(batch) |->
        [id |-> batch[k].id, text |-> batch[k].text,
         chunk_index |-> batch[k].chunk_index, embedding |-> data[k]]]

\* what one call of the embedding API can give: one vector per text in the
\* order of the texts, an exception, or a response one vector short
GeOutcomes == {"ok", "api_exception", "short_response"}

ge_after_batch_continue(o) == "loop"

\* after a batch: the except clause raises (lines 87-91)
ge_after_batch(o) == IF o = "ok" THEN "loop" ELSE "raised"

ge_others == <<ckvars, idvars, svvars, ixvars, chvars, hcvars, mvvars, dbvars, favars>>

\* lines 27-48: the API key, the configuration, total_batches (a batch size
\* of 0 divides by zero)
Ge_Start ==
    /\ ge_pc = "start"
    /\ \E key_ok \in BOOLEAN :
         ge_pc' = IF ~key_ok \/ ge_batch_size = 0 THEN "raised" ELSE "loop"
    /\ UNCHANGED <<ge_chunks, ge_batch_size, ge_batch_idx, chunks_with_embeddings,
                   ge_calls>>
    /\ UNCHANGED ge_others

\* one pass of the loop (lines 50-91)
Ge_Batch ==
    /\ ge_pc = "loop"
    /\ ge_batch_size > 0
    /\ ge_batch_idx < Len(ge_chunks)
    /\ LET batch_chunks == batch_slice(ge_chunks, ge_batch_idx, ge_batch_size)
           texts == texts_to_embed(batch_chunks)
           full == [k \in 1..Len(texts) |-> Embedding(texts[k])]
       IN  \E o \in GeOutcomes :
             /\ ge_calls' = Append(ge_calls, texts)
             /\ chunks_with_embeddings' =
                   IF o = "ok"
                   THEN chunks_with_embeddings \o with_embeddings(batch_chunks, full)
                   ELSE IF o = "short_response"
                   THEN chunks_with_embeddings \o
                        with_embeddings(Slice(batch_chunks, 1, Len(batch_chunks) - 1), full)
                   ELSE chunks_with_embeddings
             /\ ge_pc' = ge_after_batch(o)
    /\ ge_batch_idx' = ge_batch_idx + ge_batch_size
    /\ UNCHANGED <<ge_chunks, ge_batch_size>>
    /\ UNCHANGED ge_others

\* after the loop (lines 93-113): the statistics divide by the number of
\* chunks with embeddings, then the result is returned
Ge_Finish ==
    /\ ge_pc = "loop"
    /\ ge_batch_size < 0 \/ ge_batch_idx >= Len(ge_chunks)
    /\ ge_pc' = IF Len(chunks_with_embeddings) = 0 THEN "raised" ELSE "returned"
    /\ UNCHANGED <<ge_chunks, ge_batch_size, ge_batch_idx, chunks_with_embeddings,
                   ge_calls>>
    /\ UNCHANGED ge_others

EmbedNext ==
    \/ Ge_Start
    \/ Ge_Batch
    \/ Ge_Finish

(* --------------------------- IngestionPipeline ------------------------ *)
MaxRuns == 2

IxBatchSize == 30

MinChunkChars == 20

SOURCE_PREFIX == <<"s", "o", "u", "r", "c", "e", "/">>

PROCESSED_PREFIX == <<"p", "r", "o", "c", "e", "s", "s", "e", "d", "/">>

ErrorMarker == <<"E", "r", "r", "o", "r", " ", "p", "r", "o", "c", "e", "s", "s", "i", "n", "g", " ", "d", "o", "c", "u", "m", "e", "n", "t">>

FILE_A == <<"s", "o", "u", "r", "c", "e", "/", "a", ".", "p", "d", "f">>

FILE_B == <<"s", "o", "u", "r", "c", "e", "/", "b", ".", "p", "d", "f">>

FILE_E == <<"s", "o", "u", "r", "c", "e", "/", "e", ".", "p", "d", "f">>

FILE_N == <<"s", "o", "u", "r", "c", "e", "/", "n", ".", "t", "x", "t">>

StartsWith(s, p) == Len(s) >= Len(p) /\ SubSeq(s, 1, Len(p)) = p

EndsWith(s, p) == Len(s) >= Len(p) /\ SubSeq(s, Len(s) - Len(p) + 1, Len(s)) = p

\* str.replace(old, new, 1): the first occurrence replaced, if there is one
ReplaceFirst(s, old, new) ==
    IF ~Contains(s, old) THEN s
    ELSE LET k == FirstIndex(s, old)
         IN  Slice(s, 1, k - 1) \o new \o Slice(s, k + Len(old), Len(s))

\* a chunk text of n characters without whitespace: a tag, a number, filling
Body(tag, k, n) ==
    LET head == <<tag>> \o Dec(k)
    IN  head \o [j \in 1..(n - Len(head)) |-> "z"]

\* what process_pdf_file and the text splitter (both outside the repository's
\* own code) give for each object of the bucket: a.pdf 31 chunks, b.pdf one
\* chunk and one of exactly 20 characters, e.pdf the placeholder of a failed
\* extraction
ChunksOf(key) ==
    IF key = FILE_A THEN [k \in 1..31 |-> [page_content |-> Body("a", k, 21), source |-> key]]
    ELSE IF key = FILE_B THEN << [page_content |-> Body("b", 1, 21), source |-> key],
                                 [page_content |-> Body("b", 2, 20), source |-> key] >>
    ELSE IF key = FILE_E THEN << [page_content |-> ErrorMarker \o <<" ">> \o key, source |-> key] >>
    ELSE <<>>

\* the sets of objects an upload puts under the source prefix
DocSets == { {FILE_A, FILE_B}, {FILE_B}, {FILE_B, FILE_N}, {FILE_E}, {FILE_N} }

\* the characters of the keys in code point order
CharOrder ==
    <<"-", ".", "/", "0", "1", "2", "3", "4", "5", "6", "7", "8", "9",
      "a", "b", "c", "d", "e", "f", "g", "h", "i", "j", "k", "l", "m",
      "n", "o", "p", "q", "r", "s", "t", "u", "v", "w", "x", "y", "z">>

CharRank(c) == CHOOSE k \in 1..Len(CharOrder) : CharOrder[k] = c

\* list_objects_v2 returns the keys in ascending order
RECURSIVE KeyLess(_, _)
KeyLess(a, b) ==
    IF a = <<>> THEN b /= <<>>
    ELSE IF b = <<>> THEN FALSE
    ELSE IF Head(a) = Head(b) THEN KeyLess(Tail(a), Tail(b))
    ELSE CharRank(Head(a)) < CharRank(Head(b))

RECURSIVE SortedKeys(_)
SortedKeys(S) ==
    IF S = {} THEN <<>>
    ELSE LET m == CHOOSE x \in S : \A y \in S \ {x} : KeyLess(x, y)
         IN  <<m>> \o SortedKeys(S \ {m})

RECURSIVE Flatten(_)
Flatten(ss) == IF ss = <<>> THEN <<>> ELSE Head(ss) \o Flatten(Tail(ss))

\* lines 176-186: the documents of the supported (.pdf) files, in order
all_documents(keys) ==
    Flatten([k \in 1..Len(keys) |->
                IF EndsWith(keys[k], <<".", "p", "d", "f">>) THEN ChunksOf(keys[k]) ELSE <<>>])

keeps_ge(chunk) ==
    /\ Len(Strip(chunk.page_content)) >= MinChunkChars
    /\ ~StartsWith(chunk.page_content, ErrorMarker)

\* lines 198-200: the filter on the chunks
keeps(chunk) ==
    /\ Len(Strip(chunk.page_content)) > MinChunkChars
    /\ ~StartsWith(chunk.page_content, ErrorMarker)

\* lines 223-227: identifier of the j-th chunk (from 0) of the batch at i
vector_id_fresh(chunk, i, j) ==
    content_hash(BaseName(chunk.source), i + j + 1000 * Len(run_hist), chunk.page_content)

vector_id(chunk, i, j) ==
    content_hash(BaseName(chunk.source), i + j, chunk.page_content)

\* the points of the batch that starts at i (0-based)
batch_points(chunks, i) ==
    LET batch_chunks == Slice(chunks, i + 1, i + IxBatchSize)
    IN  [j \in 1..Len(batch_chunks) |->
            [id |-> vector_id(batch_chunks[j], i, j - 1),
             text |-> batch_chunks[j].source]]

\* what one pass of the batch loop can meet.  A failed upsert call is taken
\* to have written nothing.
IxOutcomes == {"ok", "embed_exception", "upsert_exception", "upsert_timeout"}

ix_after_batch_abort(o, more) ==
    IF o = "embed_exception" THEN "abort" ELSE IF more THEN "batch" ELSE "move"

\* after a batch: the next batch, or the move of the files; every except
\* clause of the loop continues (lines 235-237, 262-268)
ix_after_batch(o, more) == IF more THEN "batch" ELSE "move"

MoveOutcomes == {"ok", "copy_exception", "delete_exception"}

\* the identifiers in the collection
StoredIds == DOMAIN ix_points

\* the identifiers the collection held when the current (or last) run began
IdsBeforeRun ==
    IF ix_pc = "idle"
    THEN IF run_hist = <<>> THEN {} ELSE run_hist[Len(run_hist)].ids_before
    ELSE IF run_hist = <<>> THEN {} ELSE run_hist[Len(run_hist)].ids_after

\* the record of a run that ends now
RunRecord(keys, how, allok, ids) ==
    [files |-> keys, exit |-> how, ok |-> allok,
     ids_before |-> IF run_hist = <<>> THEN {} ELSE run_hist[Len(run_hist)].ids_after,
     ids_after |-> ids]


ix_others == <<ckvars, idvars, svvars, gevars, chvars, hcvars, mvvars, dbvars, favars>>

\* someone puts documents under the source prefix
Ix_Upload(S) ==
    /\ ix_pc = "idle"
    /\ Len(run_hist) < MaxRuns
    /\ ~(S \subseteq source)
    /\ source' = source \cup S
    /\ UNCHANGED <<processed, file_keys, filtered_chunks, ix_i, ix_move,
                   ix_points, ix_log, ix_pc, run_hist>>
    /\ UNCHANGED ix_others

\* run_indexing_pipeline up to the batch loop (lines 146-208): list, load,
\* split, filter, with the three early returns; a failing listing raises
Ix_Start ==
    /\ ix_pc = "idle"
    /\ Len(run_hist) < MaxRuns
    /\ \E list_ok \in BOOLEAN :
         LET keys == SortedKeys({k \in source : k /= SOURCE_PREFIX /\ ~EndsWith(k, <<"/">>)})
             docs == all_documents(keys)
             fc == SelectSeq(docs, keeps)
         IN  IF ~list_ok
             THEN /\ run_hist' = Append(run_hist, RunRecord(<<>>, "raised", FALSE, StoredIds))
                  /\ file_keys' = <<>>
                  /\ filtered_chunks' = <<>>
                  /\ ix_pc' = "idle"
             ELSE IF keys = <<>> \/ docs = <<>> \/ fc = <<>>
             THEN /\ run_hist' = Append(run_hist, RunRecord(keys, "returned_early", TRUE, StoredIds))
                  /\ file_keys' = keys
                  /\ filtered_chunks' = fc
                  /\ ix_pc' = "idle"
             ELSE /\ file_keys' = keys
                  /\ filtered_chunks' = fc
                  /\ ix_pc' = "batch"
                  /\ UNCHANGED run_hist
    /\ ix_i' = 0
    /\ ix_move' = 1
    /\ ix_log' = <<>>
    /\ UNCHANGED <<source, processed, ix_points>>
    /\ UNCHANGED ix_others

\* one pass of the batch loop (lines 211-268): embed, derive the identifiers,
\* upsert
Ix_Batch ==
    /\ ix_pc = "batch"
    /\ \E o \in IxOutcomes :
         /\ ix_points' = IF o = "ok"
                         THEN Upsert(ix_points, batch_points(filtered_chunks, ix_i))
                         ELSE ix_points
         /\ ix_log' = Append(ix_log, [i |-> ix_i, outcome |-> o])
         /\ ix_pc' = ix_after_batch(o, ix_i + IxBatchSize < Len(filtered_chunks))
    /\ ix_i' = ix_i + IxBatchSize
    /\ UNCHANGED <<source, processed, file_keys, filtered_chunks, ix_move, run_hist>>
    /\ UNCHANGED ix_others

\* one pass of the loop that moves the files (lines 272-288): copy, then
\* delete; an exception ends the loop and is swallowed
Ix_Move ==
    /\ ix_pc = "move"
    /\ \E o \in MoveOutcomes :
         LET file_key == file_keys[ix_move]
             new_key == ReplaceFirst(file_key, SOURCE_PREFIX, PROCESSED_PREFIX)
         IN  /\ processed' = IF o = "copy_exception" THEN processed
                             ELSE processed \cup {new_key}
             /\ source' = IF o = "ok" THEN source \ {file_key} ELSE source
             /\ IF o = "ok" /\ ix_move < Len(file_keys)
                THEN /\ ix_move' = ix_move + 1
                     /\ UNCHANGED <<ix_pc, run_hist>>
                ELSE /\ ix_pc' = "idle"
                     /\ run_hist' = Append(run_hist,
                           RunRecord(file_keys, "finished",
                                     o = "ok" /\ \A k \in 1..Len(ix_log) : ix_log[k].outcome = "ok",
                                     StoredIds))
                     /\ UNCHANGED ix_move
    /\ UNCHANGED <<file_keys, filtered_chunks, ix_i, ix_points, ix_log>>
    /\ UNCHANGED ix_others

IndexNext ==
    \/ \E S \in DocSets : Ix_Upload(S)
    \/ Ix_Start
    \/ Ix_Batch
    \/ Ix_Move

(* ------------------------------ chat handlers ------------------------- *)
MaxCalls == 2

MaxHits == 2

\* SIMILARITY_THRESHOLD, 0.7, in tenths
SIMILARITY_THRESHOLD == 7

\* a search without score_threshold
NoThreshold == -1

\* similarity scores, in tenths
Scores == {3, 7, 9}

\* what the collection holds for a query: the points with their scores, best
\* first, as Qdrant ranks them
\* (the scores alone, then the points)
ScoreLists ==
    {g \in UNION {[1..m -> Scores] : m \in 0..MaxHits} :
        \A i, j \in DOMAIN g : i < j => g[i] >= g[j]}

HitLists ==
    {[k \in 1..Len(g) |-> [text |-> <<"d">> \o Dec(k), score |-> g[k]]] : g \in ScoreLists}

\* qdrant_client.search: the best `limit` points, those below the score
\* threshold left out when one is given
qdrant_search(hits, limit, score_threshold) ==
    LET passes(h) == score_threshold = NoThreshold \/ h.score >= score_threshold
    IN  Slice(SelectSeq(hits, passes), 1, limit)

\* the context given to the chat completion: the texts of the sources
context_of(sources) == [k \in 1..Len(sources) |-> sources[k].text]

\* the events of lambda_handler: the method, the body (a string, an object
\* or no body), whether the string decodes as JSON, the decoded value (dict,
\* list or null) and, for a dict, its query and max_results entries
LhEvents ==
    {ev \in [httpMethod : {"POST", "OPTIONS"},
             body : {"str", "obj", "absent"},
             decodes : BOOLEAN,
             vtype : {"dict", "list", "null"},
             query : {"absent", "blank", "text", "number"},
             max_results : {"absent", "1", "abc"}] :
        /\ ev.body = "absent" => ev.decodes /\ ev.vtype = "dict" /\ ev.query = "absent"
        /\ ev.body = "obj" => ev.decodes
        /\ ~ev.decodes => ev.vtype = "dict" /\ ev.query = "absent"
        /\ ev.vtype /= "dict" => ev.query = "absent"
        /\ ev.query /= "text" => ev.max_results = "absent"}

\* json.loads(event['body']) (lines 233-236): whether it raises
parse_raises(ev) == ev.body = "str" /\ ~ev.decodes

\* ChatRequest.from_dict (lines 55-65): the request, a ValueError (empty
\* query, max_results that is no integer) or another exception (a body that
\* is no dict, a query that is no string)
from_dict(ev) ==
    IF ev.vtype /= "dict" THEN "AttributeError"
    ELSE IF ev.query \in {"absent", "blank"} THEN "ValueError"
    ELSE IF ev.query = "number" THEN "AttributeError"
    ELSE IF ev.max_results = "abc" THEN "ValueError"
    ELSE "request"

\* min(int(data.get('max_results', 3)), 10) (line 64)
max_results_of(ev) == MinOf(IF ev.max_results = "1" THEN 1 ELSE 3, 10)

\* the responses: status code, the status (lambda) or source (fastapi) of the
\* body, and the kind of answer
Response(code, st, ans) == [statusCode |-> code, status |-> st, answer |-> ans]

lh_exit_raise(e) == [pc |-> "raised", response |-> <<>>]

\* the outer except clause of lambda_handler (lines 265-275): a response with
\* status code 500
lh_exit(e) == [pc |-> "returned", response |-> Response(500, "error", "none")]

\* the conversations of the chat_history table
Conversations == {"conv-1", "conv-2"}

\* main.py lines 74-80: the user turn at int(time.time()), the assistant turn
\* one second later, both added and committed; the primary key counts the rows
save_chat_history(rows, conversation_id, t, user_query, assistant_response) ==
    rows \o << [id |-> Len(rows) + 1, conversation_id |-> conversation_id,
                timestamp |-> t, role |-> "user", content |-> user_query],
               [id |-> Len(rows) + 2, conversation_id |-> conversation_id,
                timestamp |-> t + 1, role |-> "assistant",
                content |-> assistant_response] >>

\* the rows of S in each of the orders that ORDER BY timestamp allows: rows
\* of equal timestamp come in any order
RECURSIVE OrdersByTimestamp(_)
OrdersByTimestamp(S) ==
    IF S = {} THEN {<<>>}
    ELSE UNION {{<<m>> \o rest : rest \in OrdersByTimestamp(S \ {m})} :
                m \in {r \in S : \A q \in S : r.timestamp <= q.timestamp}}

\* main.py lines 71-72: the rows of the conversation, ordered by timestamp
get_chat_history(rows, conversation_id) ==
    OrdersByTimestamp({rows[k] : k \in {j \in 1..Len(rows) :
                                     rows[j].conversation_id = conversation_id}})

ch_others == <<ckvars, idvars, svvars, ixvars, gevars, hcvars, mvvars, dbvars, favars>>

\* an event reaches lambda_handler
Lh_Receive(ev) ==
    /\ ch_pc = "idle"
    /\ ch_calls < MaxCalls
    /\ ch_app' = "lambda"
    /\ ch_event' = ev
    /\ ch_hits' = <<>> /\ ch_sources' = <<>> /\ ch_llm_ctx' = <<>>
    /\ ch_exc' = "none" /\ ch_response' = <<>>
    /\ ch_pc' = "lh_front"
    /\ ch_calls' = ch_calls + 1
    /\ UNCHANGED rag_service
    /\ UNCHANGED ch_others

\* lines 218-251: the service instance, the preflight, the body, the
\* validation
Lh_Front ==
    /\ ch_pc = "lh_front"
    /\ \E init_ok \in BOOLEAN :
         LET e == IF ~rag_service /\ ~init_ok THEN "service_init"
                  ELSE IF ch_event.httpMethod = "OPTIONS" THEN "preflight"
                  ELSE IF parse_raises(ch_event) THEN "json_loads"
                  ELSE from_dict(ch_event)
         IN  /\ rag_service' = (rag_service \/ init_ok)
             /\ IF e = "request"
                THEN /\ ch_pc' = "lh_embed"
                     /\ UNCHANGED <<ch_exc, ch_response>>
                ELSE IF e = "preflight"
                THEN /\ ch_pc' = "returned"
                     /\ ch_response' = Response(200, "none", "none")
                     /\ UNCHANGED ch_exc
                ELSE IF e = "ValueError"
                THEN /\ ch_pc' = "returned"
                     /\ ch_response' = Response(400, "error", "none")
                     /\ ch_exc' = e
                ELSE /\ ch_pc' = lh_exit(e).pc
                     /\ ch_response' = lh_exit(e).response
                     /\ ch_exc' = e
    /\ UNCHANGED <<ch_app, ch_event, ch_hits, ch_sources, ch_llm_ctx, ch_calls>>
    /\ UNCHANGED ch_others

\* generate_embedding (lines 100-110, 169)
Lh_Embed ==
    /\ ch_pc = "lh_embed"
    /\ \E ok \in BOOLEAN :
         IF ok
         THEN /\ ch_pc' = "lh_search"
              /\ UNCHANGED <<ch_exc, ch_response>>
         ELSE /\ ch_pc' = lh_exit("embedding").pc
              /\ ch_response' = lh_exit("embedding").response
              /\ ch_exc' = "embedding"
    /\ UNCHANGED <<rag_service, ch_app, ch_event, ch_hits, ch_sources, ch_llm_ctx,
                   ch_calls>>
    /\ UNCHANGED ch_others

\* search_documents (lines 112-137, 172) and the answer without sources
\* (lines 174-175, 181-191, 254-262)
Lh_Search ==
    /\ ch_pc = "lh_search"
    /\ \E ok \in BOOLEAN, hits \in HitLists :
         IF ok
         THEN LET sources == qdrant_search(hits, max_results_of(ch_event),
                                           SIMILARITY_THRESHOLD)
              IN  /\ ch_hits' = hits
                  /\ ch_sources' = sources
                  /\ IF sources = <<>>
                     THEN /\ ch_pc' = "returned"
                          /\ ch_response' = Response(200, "success", "insufficient")
                     ELSE /\ ch_pc' = "lh_llm"
                          /\ UNCHANGED ch_response
                  /\ UNCHANGED ch_exc
         ELSE /\ ch_pc' = lh_exit("search").pc
              /\ ch_response' = lh_exit("search").response
              /\ ch_exc' = "search"
              /\ UNCHANGED <<ch_hits, ch_sources>>
    /\ UNCHANGED <<rag_service, ch_app, ch_event, ch_llm_ctx, ch_calls>>
    /\ UNCHANGED ch_others

\* generate_response (lines 139-161, 177-179) and the response (lines
\* 181-191, 254-262)
Lh_Generate ==
    /\ ch_pc = "lh_llm"
    /\ ch_llm_ctx' = Append(ch_llm_ctx, context_of(ch_sources))
    /\ \E ok \in BOOLEAN :
         IF ok
         THEN /\ ch_pc' = "returned"
              /\ ch_response' = Response(200, "success", "generated")
              /\ UNCHANGED ch_exc
         ELSE /\ ch_pc' = lh_exit("chat_completion").pc
              /\ ch_response' = lh_exit("chat_completion").response
              /\ ch_exc' = "chat_completion"
    /\ UNCHANGED <<rag_service, ch_app, ch_event, ch_hits, ch_sources, ch_calls>>
    /\ UNCHANGED ch_others

\* the handler has returned or raised; the container waits for the next event
Ch_Done ==
    /\ ch_pc \in {"returned", "raised"}
    /\ ch_calls < MaxCalls
    /\ ch_pc' = "idle"
    /\ UNCHANGED <<rag_service, ch_app, ch_event, ch_hits, ch_sources, ch_llm_ctx,
                   ch_exc, ch_response, ch_calls>>
    /\ UNCHANGED ch_others

\* the requests of the FastAPI chat endpoint: a question, or a question
\* about the available models, in a conversation
FaRequests == [query : {"question", "about_models"}, conversation_id : {"conv-1"}]

\* the standalone questions: the query itself or what the model rephrased
Questions == {"question", "rephrased"}

\* the contents a chat completion can return
LlmAnswers == {"llm_answer", ""}

\* the Fa actions write the chat_history table and the cache
fa_others == <<ckvars, idvars, svvars, ixvars, gevars, hcvars, mvvars>>

\* a call made by the request and whether it returned
Call(name, ok) == [call |-> name, ok |-> ok]

cache_hit_never(value) == FALSE

\* main.py line 190, `if cached_response:`: None and the empty string are no
\* hit
cache_hit(value) == value /= "nil" /\ value /= ""

fa_rag_exit_fallback(e) == [pc |-> "fa_llm", response |-> <<>>]

\* the except clause of lines 205-211: the error answer is returned
fa_rag_exit(e) == [pc |-> "returned", response |-> Response(200, "error", "error")]

\* a request reaches chat_handler
Fa_Receive(req) ==
    /\ ch_pc = "idle"
    /\ ch_calls < MaxCalls
    /\ ch_app' = "fastapi"
    /\ ch_event' = req
    /\ ch_hits' = <<>> /\ ch_sources' = <<>> /\ ch_llm_ctx' = <<>>
    /\ ch_exc' = "none" /\ ch_response' = <<>>
    /\ ch_pc' = "fa_front"
    /\ ch_calls' = ch_calls + 1
    /\ standalone_question' = "none"
    /\ cached_response' = "nil"
    /\ fa_trace' = <<>>
    /\ UNCHANGED <<rag_service, redis_cache, dbvars>>
    /\ UNCHANGED fa_others

\* main.py lines 153-185: the API key, the question about the models, the
\* history and the standalone question (the query itself when there is no
\* history, else what a chat completion makes of it); an exception goes to
\* the outer except clause of lines 218-224
Fa_Front ==
    /\ ch_pc = "fa_front"
    /\ \E key_ok \in BOOLEAN, models_ok \in BOOLEAN, history_ok \in BOOLEAN,
          rephrase_ok \in BOOLEAN, sq \in Questions,
          h \in get_chat_history(db_rows, ch_event.conversation_id) :
         IF ~key_ok
         THEN /\ ch_pc' = "returned"
              /\ ch_response' = Response(200, "error", "key_missing")
              /\ UNCHANGED <<ch_exc, standalone_question, fa_trace, hist_conv, chat_history>>
         ELSE IF ch_event.query = "about_models"
         THEN /\ ch_pc' = "returned"
              /\ ch_response' = IF models_ok THEN Response(200, "system", "models")
                                ELSE Response(200, "error", "error")
              /\ fa_trace' = Append(fa_trace, Call("models_list", models_ok))
              /\ UNCHANGED <<ch_exc, standalone_question, hist_conv, chat_history>>
         ELSE IF ~history_ok
         THEN /\ ch_pc' = "returned"
              /\ ch_response' = Response(200, "error", "error")
              /\ ch_exc' = "history"
              /\ fa_trace' = Append(fa_trace, Call("get_chat_history", FALSE))
              /\ UNCHANGED <<standalone_question, hist_conv, chat_history>>
         ELSE IF h = <<>>
         THEN /\ ch_pc' = "fa_cache"
              /\ hist_conv' = ch_event.conversation_id
              /\ chat_history' = h
              /\ standalone_question' = ch_event.query
              /\ fa_trace' = Append(fa_trace, Call("get_chat_history", TRUE))
              /\ UNCHANGED <<ch_exc, ch_response>>
         ELSE IF ~rephrase_ok
         THEN /\ ch_pc' = "returned"
              /\ ch_response' = Response(200, "error", "error")
              /\ ch_exc' = "rephrase"
              /\ hist_conv' = ch_event.conversation_id
              /\ chat_history' = h
              /\ fa_trace' = fa_trace \o <<Call("get_chat_history", TRUE),
                                          Call("rephrase", FALSE)>>
              /\ UNCHANGED standalone_question
         ELSE /\ ch_pc' = "fa_cache"
              /\ hist_conv' = ch_event.conversation_id
              /\ chat_history' = h
              /\ standalone_question' = sq
              /\ fa_trace' = fa_trace \o <<Call("get_chat_history", TRUE),
                                          Call("rephrase", TRUE)>>
              /\ UNCHANGED <<ch_exc, ch_response>>
    /\ UNCHANGED <<rag_service, ch_app, ch_event, ch_hits, ch_sources, ch_llm_ctx,
                   ch_calls, redis_cache, cached_response, db_rows, now>>
    /\ UNCHANGED fa_others

\* lines 187-193: the cache is read under the key of the standalone
\* question; on a hit the exchange is saved and the cached answer returned
Fa_Cache ==
    /\ ch_pc = "fa_cache"
    /\ \E get_ok \in BOOLEAN, save_ok \in BOOLEAN :
         LET cached == redis_cache[standalone_question]
         IN  IF ~get_ok
             THEN /\ ch_pc' = "returned"
                  /\ ch_response' = Response(200, "error", "error")
                  /\ ch_exc' = "redis_get"
                  /\ fa_trace' = Append(fa_trace, Call("redis_get", FALSE))
                  /\ UNCHANGED <<db_rows, cached_response>>
             ELSE IF cache_hit(cached)
             THEN /\ ch_pc' = "returned"
                  /\ cached_response' = cached
                  /\ fa_trace' = fa_trace \o <<Call("redis_get", TRUE),
                                              Call("save_chat_history", save_ok)>>
                  /\ IF save_ok
                     THEN /\ db_rows' = save_chat_history(db_rows, ch_event.conversation_id,
                                                          now, ch_event.query, cached)
                          /\ ch_response' = Response(200, "cache", cached)
                          /\ UNCHANGED ch_exc
                     ELSE /\ ch_response' = Response(200, "error", "error")
                          /\ ch_exc' = "save"
                          /\ UNCHANGED db_rows
             ELSE /\ ch_pc' = "fa_embed"
                  /\ cached_response' = cached
                  /\ fa_trace' = Append(fa_trace, Call("redis_get", TRUE))
                  /\ UNCHANGED <<ch_exc, ch_response, db_rows>>
    /\ UNCHANGED <<rag_service, ch_app, ch_event, ch_hits, ch_sources, ch_llm_ctx,
                   ch_calls, redis_cache, standalone_question, now, hist_conv,
                   chat_history>>
    /\ UNCHANGED fa_others

\* get_query_embedding (lines 96-98, 197) with the except clause of lines
\* 205-211
Fa_Embed ==
    /\ ch_pc = "fa_embed"
    /\ \E ok \in BOOLEAN :
         /\ fa_trace' = Append(fa_trace, Call("embedding", ok))
         /\ IF ok
            THEN /\ ch_pc' = "fa_search"
                 /\ UNCHANGED <<ch_exc, ch_response>>
            ELSE /\ ch_pc' = fa_rag_exit("embedding").pc
                 /\ ch_response' = fa_rag_exit("embedding").response
                 /\ ch_exc' = "embedding"
    /\ UNCHANGED <<rag_service, ch_app, ch_event, ch_hits, ch_sources, ch_llm_ctx,
                   ch_calls, redis_cache, standalone_question, cached_response, dbvars>>
    /\ UNCHANGED fa_others

\* get_rag_context (lines 100-112, 198): a search with limit 3 and no score
\* threshold; the texts found are joined into the context
Fa_Search ==
    /\ ch_pc = "fa_search"
    /\ \E ok \in BOOLEAN, hits \in HitLists :
         /\ fa_trace' = Append(fa_trace, Call("search", ok))
         /\ IF ok
            THEN /\ ch_hits' = hits
                 /\ ch_sources' = qdrant_search(hits, 3, NoThreshold)
                 /\ ch_pc' = "fa_llm"
                 /\ UNCHANGED <<ch_exc, ch_response>>
            ELSE /\ ch_pc' = fa_rag_exit("search").pc
                 /\ ch_response' = fa_rag_exit("search").response
                 /\ ch_exc' = "search"
                 /\ UNCHANGED <<ch_hits, ch_sources>>
    /\ UNCHANGED <<rag_service, ch_app, ch_event, ch_llm_ctx, ch_calls, redis_cache,
                   standalone_question, cached_response, dbvars>>
    /\ UNCHANGED fa_others

\* get_llm_response (lines 114-146, 199-204), which asks the models in turn
\* with the same prompt, then the cache and the history (lines 213-216); a
\* failure of every model gives the raw context as the answer, a failure of
\* the cache or of the database the answer of the outer except clause
Fa_Generate ==
    /\ ch_pc = "fa_llm"
    /\ ch_llm_ctx' = Append(ch_llm_ctx, context_of(ch_sources))
    /\ \E llm_ok \in BOOLEAN, content \in LlmAnswers, setex_ok \in BOOLEAN,
          save_ok \in BOOLEAN :
         LET answer == IF llm_ok THEN content ELSE "raw_context"
         IN  /\ fa_trace' = fa_trace \o <<Call("chat_completion", llm_ok),
                                         Call("redis_setex", setex_ok)>>
                              \o (IF setex_ok THEN <<Call("save_chat_history", save_ok)>>
                                  ELSE <<>>)
             /\ redis_cache' = IF setex_ok
                               THEN [redis_cache EXCEPT ![standalone_question] = answer]
                               ELSE redis_cache
             /\ db_rows' = IF setex_ok /\ save_ok
                           THEN save_chat_history(db_rows, ch_event.conversation_id, now,
                                                  ch_event.query, answer)
                           ELSE db_rows
             /\ ch_response' = IF setex_ok /\ save_ok
                               THEN Response(200, "generated", answer)
                               ELSE Response(200, "error", "error")
             /\ ch_exc' = IF ~setex_ok THEN "redis_setex"
                          ELSE IF ~save_ok THEN "save"
                          ELSE IF ~llm_ok THEN "chat_completion"
                          ELSE "none"
    /\ ch_pc' = "returned"
    /\ UNCHANGED <<rag_service, ch_app, ch_event, ch_hits, ch_sources, ch_calls,
                   standalone_question, cached_response, now, hist_conv, chat_history>>
    /\ UNCHANGED fa_others

ChatNext ==
    \/ \E ev \in LhEvents : Lh_Receive(ev)
    \/ Lh_Front
    \/ Lh_Embed
    \/ Lh_Search
    \/ Lh_Generate
    \/ \E req \in FaRequests : Fa_Receive(req)
    \/ Fa_Front
    \/ Fa_Cache
    \/ Fa_Embed
    \/ Fa_Search
    \/ Fa_Generate
    \/ Ch_Done

(* ---------------------------- specifications -------------------------- *)
\* the chunker on any text of the bounded alphabet; the other components idle
InitChunk ==
    /\ text \in TextsUpTo(MaxTextLen)
    /\ chunk_size \in 1..MaxChunkSize
    /\ chunk_overlap \in 0..MaxOverlap
    /\ separator = <<>> /\ splits = <<>> /\ split_idx = 0
    /\ current_chunk = <<>> /\ win_i = 0 /\ out_chunks = <<>>
    /\ ck_pc = "start"
    /\ id_reqs = <<>>
    /\ id_out = <<>>
    /\ sv_chunks = [r \in SvRuns |-> <<>>]
    /\ batch_size = [r \in SvRuns |-> 1]
    /\ batch_idx = [r \in SvRuns |-> 0]
    /\ stored_count = [r \in SvRuns |-> 0]
    /\ failed_count = [r \in SvRuns |-> 0]
    /\ batch_log = [r \in SvRuns |-> <<>>]
    /\ sv_rate = [r \in SvRuns |-> -1]
    /\ sv_pc = [r \in SvRuns |-> "off"]
    /\ collection_exists = FALSE
    /\ points = <<>>
    /\ source = {} /\ processed = {} /\ file_keys = <<>>
    /\ filtered_chunks = <<>> /\ ix_i = 0 /\ ix_move = 0
    /\ ix_points = <<>> /\ ix_log = <<>> /\ ix_pc = "off" /\ run_hist = <<>>
    /\ ge_chunks = <<>> /\ ge_batch_size = 1 /\ ge_batch_idx = 0
    /\ chunks_with_embeddings = <<>> /\ ge_calls = <<>> /\ ge_pc = "off"
    /\ rag_service = FALSE /\ ch_app = "none" /\ ch_event = <<>>
    /\ ch_hits = <<>> /\ ch_sources = <<>> /\ ch_llm_ctx = <<>>
    /\ ch_exc = "none" /\ ch_response = <<>> /\ ch_pc = "off" /\ ch_calls = 0
    /\ time_bound = FALSE /\ openai_client = FALSE /\ qdrant_client = FALSE
    /\ health_status = <<>> /\ hc_probes = <<>> /\ hc_response = <<>>
    /\ hc_pc = "off" /\ hc_calls = 0
    /\ bucket = {} /\ uploaded = {} /\ copied = {} /\ document_key = <<>>
    /\ has_request_id = FALSE /\ timestamp = <<>> /\ processed_key = <<>>
    /\ time_local = FALSE /\ mv_pc = "off" /\ new_documents = {}
    /\ ld_exit = "none" /\ mv_calls = 0 /\ ld_calls = 0
    /\ db_rows = <<>> /\ now = 0 /\ hist_conv = "none" /\ chat_history = <<>>
    /\ redis_cache = [q \in Questions |-> "nil"]
    /\ standalone_question = "none" /\ cached_response = "nil" /\ fa_trace = <<>>

\* two identifier requests; the other components idle
InitId ==
    /\ text = <<>> /\ chunk_size = 1 /\ chunk_overlap = 0
    /\ separator = <<>> /\ splits = <<>> /\ split_idx = 0
    /\ current_chunk = <<>> /\ win_i = 0 /\ out_chunks = <<>>
    /\ ck_pc = "idle"
    /\ id_reqs \in [1..2 -> IdRequests]
    /\ id_out = <<>>
    /\ sv_chunks = [r \in SvRuns |-> <<>>]
    /\ batch_size = [r \in SvRuns |-> 1]
    /\ batch_idx = [r \in SvRuns |-> 0]
    /\ stored_count = [r \in SvRuns |-> 0]
    /\ failed_count = [r \in SvRuns |-> 0]
    /\ batch_log = [r \in SvRuns |-> <<>>]
    /\ sv_rate = [r \in SvRuns |-> -1]
    /\ sv_pc = [r \in SvRuns |-> "off"]
    /\ collection_exists = FALSE
    /\ points = <<>>
    /\ source = {} /\ processed = {} /\ file_keys = <<>>
    /\ filtered_chunks = <<>> /\ ix_i = 0 /\ ix_move = 0
    /\ ix_points = <<>> /\ ix_log = <<>> /\ ix_pc = "off" /\ run_hist = <<>>
    /\ ge_chunks = <<>> /\ ge_batch_size = 1 /\ ge_batch_idx = 0
    /\ chunks_with_embeddings = <<>> /\ ge_calls = <<>> /\ ge_pc = "off"
    /\ rag_service = FALSE /\ ch_app = "none" /\ ch_event = <<>>
    /\ ch_hits = <<>> /\ ch_sources = <<>> /\ ch_llm_ctx = <<>>
    /\ ch_exc = "none" /\ ch_response = <<>> /\ ch_pc = "off" /\ ch_calls = 0
    /\ time_bound = FALSE /\ openai_client = FALSE /\ qdrant_client = FALSE
    /\ health_status = <<>> /\ hc_probes = <<>> /\ hc_response = <<>>
    /\ hc_pc = "off" /\ hc_calls = 0
    /\ bucket = {} /\ uploaded = {} /\ copied = {} /\ document_key = <<>>
    /\ has_request_id = FALSE /\ timestamp = <<>> /\ processed_key = <<>>
    /\ time_local = FALSE /\ mv_pc = "off" /\ new_documents = {}
    /\ ld_exit = "none" /\ mv_calls = 0 /\ ld_calls = 0
    /\ db_rows = <<>> /\ now = 0 /\ hist_conv = "none" /\ chat_history = <<>>
    /\ redis_cache = [q \in Questions |-> "nil"]
    /\ standalone_question = "none" /\ cached_response = "nil" /\ fa_trace = <<>>

\* one invocation of store_vectors, on any event, with the collection present
\* or absent; the other components idle
InitStore ==
    /\ text = <<>> /\ chunk_size = 1 /\ chunk_overlap = 0
    /\ separator = <<>> /\ splits = <<>> /\ split_idx = 0
    /\ current_chunk = <<>> /\ win_i = 0 /\ out_chunks = <<>>
    /\ ck_pc = "idle"
    /\ id_reqs = <<>>
    /\ id_out = <<>>
    /\ sv_chunks \in [SvRuns -> StoreEvents]
    /\ sv_chunks[2] = <<>>
    /\ batch_size \in [SvRuns -> 1..MaxBatch]
    /\ batch_size[2] = 1
    /\ batch_idx = [r \in SvRuns |-> 0]
    /\ stored_count = [r \in SvRuns |-> 0]
    /\ failed_count = [r \in SvRuns |-> 0]
    /\ batch_log = [r \in SvRuns |-> <<>>]
    /\ sv_rate = [r \in SvRuns |-> -1]
    /\ sv_pc = [r \in SvRuns |-> IF r = 1 THEN "setup" ELSE "off"]
    /\ collection_exists \in BOOLEAN
    /\ points = <<>>
    /\ source = {} /\ processed = {} /\ file_keys = <<>>
    /\ filtered_chunks = <<>> /\ ix_i = 0 /\ ix_move = 0
    /\ ix_points = <<>> /\ ix_log = <<>> /\ ix_pc = "off" /\ run_hist = <<>>
    /\ ge_chunks = <<>> /\ ge_batch_size = 1 /\ ge_batch_idx = 0
    /\ chunks_with_embeddings = <<>> /\ ge_calls = <<>> /\ ge_pc = "off"
    /\ rag_service = FALSE /\ ch_app = "none" /\ ch_event = <<>>
    /\ ch_hits = <<>> /\ ch_sources = <<>> /\ ch_llm_ctx = <<>>
    /\ ch_exc = "none" /\ ch_response = <<>> /\ ch_pc = "off" /\ ch_calls = 0
    /\ time_bound = FALSE /\ openai_client = FALSE /\ qdrant_client = FALSE
    /\ health_status = <<>> /\ hc_probes = <<>> /\ hc_response = <<>>
    /\ hc_pc = "off" /\ hc_calls = 0
    /\ bucket = {} /\ uploaded = {} /\ copied = {} /\ document_key = <<>>
    /\ has_request_id = FALSE /\ timestamp = <<>> /\ processed_key = <<>>
    /\ time_local = FALSE /\ mv_pc = "off" /\ new_documents = {}
    /\ ld_exit = "none" /\ mv_calls = 0 /\ ld_calls = 0
    /\ db_rows = <<>> /\ now = 0 /\ hist_conv = "none" /\ chat_history = <<>>
    /\ redis_cache = [q \in Questions |-> "nil"]
    /\ standalone_question = "none" /\ cached_response = "nil" /\ fa_trace = <<>>

\* an empty bucket and the empty collection the indexer creates when loaded
\* (indexer.py lines 38-63); the other components idle
InitIndexer ==
    /\ text = <<>> /\ chunk_size = 1 /\ chunk_overlap = 0
    /\ separator = <<>> /\ splits = <<>> /\ split_idx = 0
    /\ current_chunk = <<>> /\ win_i = 0 /\ out_chunks = <<>>
    /\ ck_pc = "idle"
    /\ id_reqs = <<>>
    /\ id_out = <<>>
    /\ sv_chunks = [r \in SvRuns |-> <<>>]
    /\ batch_size = [r \in SvRuns |-> 1]
    /\ batch_idx = [r \in SvRuns |-> 0]
    /\ stored_count = [r \in SvRuns |-> 0]
    /\ failed_count = [r \in SvRuns |-> 0]
    /\ batch_log = [r \in SvRuns |-> <<>>]
    /\ sv_rate = [r \in SvRuns |-> -1]
    /\ sv_pc = [r \in SvRuns |-> "off"]
    /\ collection_exists = FALSE
    /\ points = <<>>
    /\ source = {} /\ processed = {} /\ file_keys = <<>>
    /\ filtered_chunks = <<>> /\ ix_i = 0 /\ ix_move = 0
    /\ ix_points = <<>> /\ ix_log = <<>> /\ ix_pc = "idle" /\ run_hist = <<>>
    /\ ge_chunks = <<>> /\ ge_batch_size = 1 /\ ge_batch_idx = 0
    /\ chunks_with_embeddings = <<>> /\ ge_calls = <<>> /\ ge_pc = "off"
    /\ rag_service = FALSE /\ ch_app = "none" /\ ch_event = <<>>
    /\ ch_hits = <<>> /\ ch_sources = <<>> /\ ch_llm_ctx = <<>>
    /\ ch_exc = "none" /\ ch_response = <<>> /\ ch_pc = "off" /\ ch_calls = 0
    /\ time_bound = FALSE /\ openai_client = FALSE /\ qdrant_client = FALSE
    /\ health_status = <<>> /\ hc_probes = <<>> /\ hc_response = <<>>
    /\ hc_pc = "off" /\ hc_calls = 0
    /\ bucket = {} /\ uploaded = {} /\ copied = {} /\ document_key = <<>>
    /\ has_request_id = FALSE /\ timestamp = <<>> /\ processed_key = <<>>
    /\ time_local = FALSE /\ mv_pc = "off" /\ new_documents = {}
    /\ ld_exit = "none" /\ mv_calls = 0 /\ ld_calls = 0
    /\ db_rows = <<>> /\ now = 0 /\ hist_conv = "none" /\ chat_history = <<>>
    /\ redis_cache = [q \in Questions |-> "nil"]
    /\ standalone_question = "none" /\ cached_response = "nil" /\ fa_trace = <<>>

SpecChunk == InitChunk /\ [][ChunkNext]_vars

SpecId == InitId /\ [][Derive_Id]_vars

SpecStore == InitStore /\ [][StoreNext]_vars

\* two invocations of store_vectors on the same event (the same document,
\* chunked twice), each with its own batch size, running at the same time
InitStoreTwo ==
    /\ text = <<>> /\ chunk_size = 1 /\ chunk_overlap = 0
    /\ separator = <<>> /\ splits = <<>> /\ split_idx = 0
    /\ current_chunk = <<>> /\ win_i = 0 /\ out_chunks = <<>>
    /\ ck_pc = "idle"
    /\ id_reqs = <<>>
    /\ id_out = <<>>
    /\ \E n \in 1..MaxShared :
          sv_chunks = [r \in SvRuns |->
                          chunk_objects(StoreKey, [k \in 1..n |-> ChunkTextOf(k)])]
    /\ batch_size \in [SvRuns -> 1..MaxBatch]
    /\ batch_idx = [r \in SvRuns |-> 0]
    /\ stored_count = [r \in SvRuns |-> 0]
    /\ failed_count = [r \in SvRuns |-> 0]
    /\ batch_log = [r \in SvRuns |-> <<>>]
    /\ sv_rate = [r \in SvRuns |-> -1]
    /\ sv_pc = [r \in SvRuns |-> "setup"]
    /\ collection_exists \in BOOLEAN
    /\ points = <<>>
    /\ source = {} /\ processed = {} /\ file_keys = <<>>
    /\ filtered_chunks = <<>> /\ ix_i = 0 /\ ix_move = 0
    /\ ix_points = <<>> /\ ix_log = <<>> /\ ix_pc = "off" /\ run_hist = <<>>
    /\ ge_chunks = <<>> /\ ge_batch_size = 1 /\ ge_batch_idx = 0
    /\ chunks_with_embeddings = <<>> /\ ge_calls = <<>> /\ ge_pc = "off"
    /\ rag_service = FALSE /\ ch_app = "none" /\ ch_event = <<>>
    /\ ch_hits = <<>> /\ ch_sources = <<>> /\ ch_llm_ctx = <<>>
    /\ ch_exc = "none" /\ ch_response = <<>> /\ ch_pc = "off" /\ ch_calls = 0
    /\ time_bound = FALSE /\ openai_client = FALSE /\ qdrant_client = FALSE
    /\ health_status = <<>> /\ hc_probes = <<>> /\ hc_response = <<>>
    /\ hc_pc = "off" /\ hc_calls = 0
    /\ bucket = {} /\ uploaded = {} /\ copied = {} /\ document_key = <<>>
    /\ has_request_id = FALSE /\ timestamp = <<>> /\ processed_key = <<>>
    /\ time_local = FALSE /\ mv_pc = "off" /\ new_documents = {}
    /\ ld_exit = "none" /\ mv_calls = 0 /\ ld_calls = 0
    /\ db_rows = <<>> /\ now = 0 /\ hist_conv = "none" /\ chat_history = <<>>
    /\ redis_cache = [q \in Questions |-> "nil"]
    /\ standalone_question = "none" /\ cached_response = "nil" /\ fa_trace = <<>>

SpecStoreTwo == InitStoreTwo /\ [][StoreNext]_vars

SpecIndexer == InitIndexer /\ [][IndexNext]_vars

\* one invocation of generate_embeddings, on any event and any configured
\* batch size; the other components idle
InitEmbed ==
    /\ text = <<>> /\ chunk_size = 1 /\ chunk_overlap = 0
    /\ separator = <<>> /\ splits = <<>> /\ split_idx = 0
    /\ current_chunk = <<>> /\ win_i = 0 /\ out_chunks = <<>>
    /\ ck_pc = "idle"
    /\ id_reqs = <<>>
    /\ id_out = <<>>
    /\ sv_chunks = [r \in SvRuns |-> <<>>]
    /\ batch_size = [r \in SvRuns |-> 1]
    /\ batch_idx = [r \in SvRuns |-> 0]
    /\ stored_count = [r \in SvRuns |-> 0]
    /\ failed_count = [r \in SvRuns |-> 0]
    /\ batch_log = [r \in SvRuns |-> <<>>]
    /\ sv_rate = [r \in SvRuns |-> -1]
    /\ sv_pc = [r \in SvRuns |-> "off"]
    /\ collection_exists = FALSE
    /\ points = <<>>
    /\ source = {} /\ processed = {} /\ file_keys = <<>>
    /\ filtered_chunks = <<>> /\ ix_i = 0 /\ ix_move = 0
    /\ ix_points = <<>> /\ ix_log = <<>> /\ ix_pc = "off" /\ run_hist = <<>>
    /\ ge_chunks \in EmbedEvents
    /\ ge_batch_size \in -1..MaxEmbBatch
    /\ ge_batch_idx = 0
    /\ chunks_with_embeddings = <<>> /\ ge_calls = <<>> /\ ge_pc = "start"
    /\ rag_service = FALSE /\ ch_app = "none" /\ ch_event = <<>>
    /\ ch_hits = <<>> /\ ch_sources = <<>> /\ ch_llm_ctx = <<>>
    /\ ch_exc = "none" /\ ch_response = <<>> /\ ch_pc = "off" /\ ch_calls = 0
    /\ time_bound = FALSE /\ openai_client = FALSE /\ qdrant_client = FALSE
    /\ health_status = <<>> /\ hc_probes = <<>> /\ hc_response = <<>>
    /\ hc_pc = "off" /\ hc_calls = 0
    /\ bucket = {} /\ uploaded = {} /\ copied = {} /\ document_key = <<>>
    /\ has_request_id = FALSE /\ timestamp = <<>> /\ processed_key = <<>>
    /\ time_local = FALSE /\ mv_pc = "off" /\ new_documents = {}
    /\ ld_exit = "none" /\ mv_calls = 0 /\ ld_calls = 0
    /\ db_rows = <<>> /\ now = 0 /\ hist_conv = "none" /\ chat_history = <<>>
    /\ redis_cache = [q \in Questions |-> "nil"]
    /\ standalone_question = "none" /\ cached_response = "nil" /\ fa_trace = <<>>

SpecEmbed == InitEmbed /\ [][EmbedNext]_vars

\* the chat handlers freshly loaded, waiting for their first event; the other
\* components idle
InitChat ==
    /\ text = <<>> /\ chunk_size = 1 /\ chunk_overlap = 0
    /\ separator = <<>> /\ splits = <<>> /\ split_idx = 0
    /\ current_chunk = <<>> /\ win_i = 0 /\ out_chunks = <<>>
    /\ ck_pc = "idle"
    /\ id_reqs = <<>>
    /\ id_out = <<>>
    /\ sv_chunks = [r \in SvRuns |-> <<>>]
    /\ batch_size = [r \in SvRuns |-> 1]
    /\ batch_idx = [r \in SvRuns |-> 0]
    /\ stored_count = [r \in SvRuns |-> 0]
    /\ failed_count = [r \in SvRuns |-> 0]
    /\ batch_log = [r \in SvRuns |-> <<>>]
    /\ sv_rate = [r \in SvRuns |-> -1]
    /\ sv_pc = [r \in SvRuns |-> "off"]
    /\ collection_exists = FALSE
    /\ points = <<>>
    /\ source = {} /\ processed = {} /\ file_keys = <<>>
    /\ filtered_chunks = <<>> /\ ix_i = 0 /\ ix_move = 0
    /\ ix_points = <<>> /\ ix_log = <<>> /\ ix_pc = "off" /\ run_hist = <<>>
    /\ ge_chunks = <<>> /\ ge_batch_size = 1 /\ ge_batch_idx = 0
    /\ chunks_with_embeddings = <<>> /\ ge_calls = <<>> /\ ge_pc = "off"
    /\ rag_service = FALSE /\ ch_app = "none" /\ ch_event = <<>>
    /\ ch_hits = <<>> /\ ch_sources = <<>> /\ ch_llm_ctx = <<>>
    /\ ch_exc = "none" /\ ch_response = <<>> /\ ch_pc = "idle" /\ ch_calls = 0
    /\ time_bound = FALSE /\ openai_client = FALSE /\ qdrant_client = FALSE
    /\ health_status = <<>> /\ hc_probes = <<>> /\ hc_response = <<>>
    /\ hc_pc = "off" /\ hc_calls = 0
    /\ bucket = {} /\ uploaded = {} /\ copied = {} /\ document_key = <<>>
    /\ has_request_id = FALSE /\ timestamp = <<>> /\ processed_key = <<>>
    /\ time_local = FALSE /\ mv_pc = "off" /\ new_documents = {}
    /\ ld_exit = "none" /\ mv_calls = 0 /\ ld_calls = 0
    /\ db_rows = <<>> /\ now = 0 /\ hist_conv = "none" /\ chat_history = <<>>
    /\ redis_cache = [q \in Questions |-> "nil"]
    /\ standalone_question = "none" /\ cached_response = "nil" /\ fa_trace = <<>>

SpecChat == InitChat /\ [][ChatNext]_vars

(* -------------------------- health_check_handler ------------------------ *)

\* the largest number of health checks followed
MaxHcCalls == 2

hc_others == <<ckvars, idvars, svvars, ixvars, gevars, chvars, mvvars, dbvars, favars>>

\* d[k] = v of a Python dictionary
Put(d, k, v) == [x \in DOMAIN d \cup {k} |-> IF x = k THEN v ELSE d[x]]

\* what a probe call can do: return, or raise with one of two messages
ProbeOutcomes == {"ok", "API Error", "timeout"}

\* f'unhealthy: {str(e)}'
unhealthy(msg) == <<"unhealthy: ", msg>>

\* the entry written for a service after its probe (lines 319-322, 329-332)
service_entry(o) == IF o = "ok" THEN "healthy" ELSE unhealthy(o)

\* health_status['status'] after a probe (lines 322, 332)
status_after(st, o) == IF o = "ok" THEN st ELSE "degraded"

\* lines 307-313: the dictionary is built with int(time.time()); the name
\* time is looked up in the module's globals, where only a run of the file
\* as a script binds it (line 352), and the NameError is caught at line 340.
\* The value of the timestamp is left out of the model.
Hc_Begin ==
    /\ hc_pc = "idle"
    /\ hc_calls < MaxHcCalls
    /\ hc_calls' = hc_calls + 1
    /\ hc_probes' = <<>>
    /\ IF time_bound
       THEN /\ health_status' = [status |-> "healthy", services |-> <<>>]
            /\ hc_response' = <<>>
            /\ hc_pc' = "openai"
       ELSE /\ health_status' = <<>>
            /\ hc_response' = [statusCode |-> 500,
                               body |-> [status |-> "unhealthy",
                                         error |-> "name 'time' is not defined"]]
            /\ hc_pc' = "returned"
    /\ UNCHANGED <<time_bound, openai_client, qdrant_client>>
    /\ UNCHANGED hc_others

\* lines 315-322
Hc_ProbeOpenAI ==
    /\ hc_pc = "openai"
    /\ IF openai_client
       THEN \E o \in ProbeOutcomes :
                /\ hc_probes' = Put(hc_probes, "openai", o)
                /\ health_status' =
                       [status |-> status_after(health_status.status, o),
                        services |-> Put(health_status.services, "openai",
                                         service_entry(o))]
       ELSE UNCHANGED <<hc_probes, health_status>>
    /\ hc_pc' = "qdrant"
    /\ UNCHANGED <<time_bound, openai_client, qdrant_client, hc_response, hc_calls>>
    /\ UNCHANGED hc_others

\* lines 325-332
Hc_ProbeQdrant ==
    /\ hc_pc = "qdrant"
    /\ IF qdrant_client
       THEN \E o \in ProbeOutcomes :
                /\ hc_probes' = Put(hc_probes, "qdrant", o)
                /\ health_status' =
                       [status |-> status_after(health_status.status, o),
                        services |-> Put(health_status.services, "qdrant",
                                         service_entry(o))]
       ELSE UNCHANGED <<hc_probes, health_status>>
    /\ hc_pc' = "respond"
    /\ UNCHANGED <<time_bound, openai_client, qdrant_client, hc_response, hc_calls>>
    /\ UNCHANGED hc_others

\* lines 334-338
Hc_Return ==
    /\ hc_pc = "respond"
    /\ hc_response' = [statusCode |-> 200, body |-> health_status]
    /\ hc_pc' = "returned"
    /\ UNCHANGED <<time_bound, openai_client, qdrant_client, health_status,
                   hc_probes, hc_calls>>
    /\ UNCHANGED hc_others

\* the container waits for the next health check
Hc_Done ==
    /\ hc_pc = "returned"
    /\ hc_pc' = "idle"
    /\ UNCHANGED <<time_bound, openai_client, qdrant_client, health_status,
                   hc_probes, hc_response, hc_calls>>
    /\ UNCHANGED hc_others

HealthNext ==
    \/ Hc_Begin
    \/ Hc_ProbeOpenAI
    \/ Hc_ProbeQdrant
    \/ Hc_Return
    \/ Hc_Done

\* the handler's module loaded, by an import (time unbound) or as a script
\* (line 352 binds time), with or without OPENAI_API_KEY and QDRANT_URL
\* (lines 37-44); the other components idle
InitHealth ==
    /\ text = <<>> /\ chunk_size = 1 /\ chunk_overlap = 0
    /\ separator = <<>> /\ splits = <<>> /\ split_idx = 0
    /\ current_chunk = <<>> /\ win_i = 0 /\ out_chunks = <<>>
    /\ ck_pc = "idle"
    /\ id_reqs = <<>>
    /\ id_out = <<>>
    /\ sv_chunks = [r \in SvRuns |-> <<>>]
    /\ batch_size = [r \in SvRuns |-> 1]
    /\ batch_idx = [r \in SvRuns |-> 0]
    /\ stored_count = [r \in SvRuns |-> 0]
    /\ failed_count = [r \in SvRuns |-> 0]
    /\ batch_log = [r \in SvRuns |-> <<>>]
    /\ sv_rate = [r \in SvRuns |-> -1]
    /\ sv_pc = [r \in SvRuns |-> "off"]
    /\ collection_exists = FALSE
    /\ points = <<>>
    /\ source = {} /\ processed = {} /\ file_keys = <<>>
    /\ filtered_chunks = <<>> /\ ix_i = 0 /\ ix_move = 0
    /\ ix_points = <<>> /\ ix_log = <<>> /\ ix_pc = "off" /\ run_hist = <<>>
    /\ ge_chunks = <<>> /\ ge_batch_size = 1 /\ ge_batch_idx = 0
    /\ chunks_with_embeddings = <<>> /\ ge_calls = <<>> /\ ge_pc = "off"
    /\ rag_service = FALSE /\ ch_app = "none" /\ ch_event = <<>>
    /\ ch_hits = <<>> /\ ch_sources = <<>> /\ ch_llm_ctx = <<>>
    /\ ch_exc = "none" /\ ch_response = <<>> /\ ch_pc = "off" /\ ch_calls = 0
    /\ time_bound \in BOOLEAN /\ openai_client \in BOOLEAN /\ qdrant_client \in BOOLEAN
    /\ health_status = <<>> /\ hc_probes = <<>> /\ hc_response = <<>>
    /\ hc_pc = "idle" /\ hc_calls = 0
    /\ bucket = {} /\ uploaded = {} /\ copied = {} /\ document_key = <<>>
    /\ has_request_id = FALSE /\ timestamp = <<>> /\ processed_key = <<>>
    /\ time_local = FALSE /\ mv_pc = "off" /\ new_documents = {}
    /\ ld_exit = "none" /\ mv_calls = 0 /\ ld_calls = 0
    /\ db_rows = <<>> /\ now = 0 /\ hist_conv = "none" /\ chat_history = <<>>
    /\ redis_cache = [q \in Questions |-> "nil"]
    /\ standalone_question = "none" /\ cached_response = "nil" /\ fa_trace = <<>>

SpecHealth == InitHealth /\ [][HealthNext]_vars

\* what the probes of the invocation found: no probe that was made failed
AllProbesOk == \A s \in DOMAIN hc_probes : hc_probes[s] = "ok"

\* C21: health_check_handler returns statusCode 200, with status 'healthy'
\* when every probe of a configured service succeeded and 'degraded' when at
\* least one failed, the services whose probe failed marked unhealthy and the
\* others healthy.
C21_HealthReport ==
    hc_pc = "returned" =>
        /\ hc_response.statusCode = 200
        /\ hc_response.body.status = (IF AllProbesOk THEN "healthy" ELSE "degraded")
        /\ DOMAIN hc_response.body.services = DOMAIN hc_probes
        /\ \A s \in DOMAIN hc_probes :
               (hc_response.body.services[s] = "healthy") <=> (hc_probes[s] = "ok")

\* where the name time is bound (the file run as a script) the report is the
\* one of C21
C21_HealthReportWhenTimeBound ==
    (hc_pc = "returned" /\ time_bound) => C21_HealthReport

(* -------------------- list_documents, move_processed -------------------- *)

\* the largest numbers of moves and of listings followed
MaxMoves == 2

MaxLists == 2

mv_others == <<ckvars, idvars, svvars, ixvars, gevars, chvars, hcvars, dbvars, favars>>

FILE_UPPER == <<"s", "o", "u", "r", "c", "e", "/", "c", ".", "P", "D", "F">>

\* the objects someone can put under the source prefix
UploadKeys == {FILE_A, FILE_B, FILE_UPPER, FILE_N}

\* the values of context.aws_request_id[:8] and of str(int(time.time()))[-8:]
\* (eight characters in the code, one here)
Stamps == {<<"1">>, <<"2">>}

\* str.lower()
LowerChar(c) ==
    IF c = "P" THEN "p" ELSE IF c = "D" THEN "d" ELSE IF c = "F" THEN "f" ELSE c

Lower(s) == [k \in 1..Len(s) |-> LowerChar(s[k])]

\* list_documents lines 48-55: an object of the listing under the source
\* prefix is kept when its key is no directory and ends, in lower case, with
\* .pdf
is_source_document(key) ==
    /\ StartsWith(key, SOURCE_PREFIX)
    /\ ~EndsWith(key, <<"/">>)
    /\ EndsWith(Lower(key), <<".", "p", "d", "f">>)

\* list_documents lines 58-68: the file names under the processed prefix
processed_filenames(objs) ==
    {BaseName(key) : key \in {k \in objs : StartsWith(k, PROCESSED_PREFIX)
                                              /\ ~EndsWith(k, <<"/">>)}}

\* list_documents lines 70-74: the source documents whose file name is not
\* among the processed file names
list_new(objs) ==
    {key \in objs : is_source_document(key)
                       /\ BaseName(key) \notin processed_filenames(objs)}

\* the positions of "." in s
DotPositions(s) == {k \in 1..Len(s) : s[k] = "."}

\* move_processed lines 45 and 54-59: the source prefix replaced once, the
\* timestamp put before the extension (rsplit('.', 1)) or at the end
with_timestamp(key, ts) ==
    LET moved == ReplaceFirst(key, SOURCE_PREFIX, PROCESSED_PREFIX)
    IN  IF DotPositions(moved) /= {}
        THEN LET d == SetMax(DotPositions(moved))
             IN  Slice(moved, 1, d - 1) \o <<"_">> \o ts \o Slice(moved, d, Len(moved))
        ELSE moved \o <<"_">> \o ts

\* someone puts a new document under the source prefix
Mv_Upload(key) ==
    /\ mv_pc = "idle"
    /\ key \notin uploaded
    /\ bucket' = bucket \cup {key}
    /\ uploaded' = uploaded \cup {key}
    /\ UNCHANGED <<copied, document_key, has_request_id, timestamp, processed_key,
                   time_local, mv_pc, new_documents, ld_exit, mv_calls, ld_calls>>
    /\ UNCHANGED mv_others

\* list_documents.lambda_handler (lines 26-93): the two listings and the
\* filter, or the exception of a listing that failed
Ld_List ==
    /\ mv_pc = "idle"
    /\ ld_calls < MaxLists
    /\ ld_calls' = ld_calls + 1
    /\ \E listing_ok \in BOOLEAN :
           IF listing_ok
           THEN /\ new_documents' = list_new(bucket)
                /\ ld_exit' = "returned"
           ELSE /\ new_documents' = {}
                /\ ld_exit' = "raised"
    /\ UNCHANGED <<bucket, uploaded, copied, document_key, has_request_id, timestamp,
                   processed_key, time_local, mv_pc, mv_calls>>
    /\ UNCHANGED mv_others

\* move_processed lines 27-59: the keys and the timestamp; the import of
\* line 51 makes time a local name of the function, bound only when the
\* else branch runs
Mv_Start(key, ctx, ts) ==
    /\ mv_pc = "idle"
    /\ mv_calls < MaxMoves
    /\ mv_calls' = mv_calls + 1
    /\ document_key' = key
    /\ has_request_id' = ctx
    /\ timestamp' = ts
    /\ time_local' = ~ctx
    /\ processed_key' = with_timestamp(key, ts)
    /\ mv_pc' = "head"
    /\ UNCHANGED <<bucket, uploaded, copied, new_documents, ld_exit, ld_calls>>
    /\ UNCHANGED mv_others

\* lines 61-70: head_object on the source key
Mv_Head ==
    /\ mv_pc = "head"
    /\ \E call_ok \in BOOLEAN :
           mv_pc' = IF call_ok /\ document_key \in bucket THEN "copy" ELSE "raised"
    /\ UNCHANGED <<bucket, uploaded, copied, document_key, has_request_id, timestamp,
                   processed_key, time_local, new_documents, ld_exit, mv_calls, ld_calls>>
    /\ UNCHANGED mv_others

\* lines 72-84: the first copy_object
Mv_Copy ==
    /\ mv_pc = "copy"
    /\ \E call_ok \in BOOLEAN :
           IF call_ok
           THEN /\ bucket' = bucket \cup {processed_key}
                /\ copied' = copied \cup {document_key}
                /\ mv_pc' = "metadata"
           ELSE /\ UNCHANGED <<bucket, copied>>
                /\ mv_pc' = "raised"
    /\ UNCHANGED <<uploaded, document_key, has_request_id, timestamp, processed_key,
                   time_local, new_documents, ld_exit, mv_calls, ld_calls>>
    /\ UNCHANGED mv_others

\* lines 86-107: the metadata, whose first entry reads time.time(), and the
\* second copy_object; any exception leaves through line 107
Mv_Metadata ==
    /\ mv_pc = "metadata"
    /\ IF ~time_local
       THEN mv_pc' = "raised"
       ELSE \E call_ok \in BOOLEAN : mv_pc' = IF call_ok THEN "delete" ELSE "raised"
    /\ UNCHANGED <<bucket, uploaded, copied, document_key, has_request_id, timestamp,
                   processed_key, time_local, new_documents, ld_exit, mv_calls, ld_calls>>
    /\ UNCHANGED mv_others

\* lines 109-118: delete_object on the source key; its failure is logged
Mv_Delete ==
    /\ mv_pc = "delete"
    /\ \E call_ok \in BOOLEAN :
           bucket' = IF call_ok THEN bucket \ {document_key} ELSE bucket
    /\ mv_pc' = "verify"
    /\ UNCHANGED <<uploaded, copied, document_key, has_request_id, timestamp,
                   processed_key, time_local, new_documents, ld_exit, mv_calls, ld_calls>>
    /\ UNCHANGED mv_others

\* lines 121-127: head_object on the processed key, then the result
Mv_Verify ==
    /\ mv_pc = "verify"
    /\ \E call_ok \in BOOLEAN :
           mv_pc' = IF call_ok /\ processed_key \in bucket THEN "returned" ELSE "raised"
    /\ UNCHANGED <<bucket, uploaded, copied, document_key, has_request_id, timestamp,
                   processed_key, time_local, new_documents, ld_exit, mv_calls, ld_calls>>
    /\ UNCHANGED mv_others

\* the invocation is over
Mv_Done ==
    /\ mv_pc \in {"returned", "raised"}
    /\ mv_pc' = "idle"
    /\ UNCHANGED <<bucket, uploaded, copied, document_key, has_request_id, timestamp,
                   processed_key, time_local, new_documents, ld_exit, mv_calls, ld_calls>>
    /\ UNCHANGED mv_others

MoveNext ==
    \/ \E key \in UploadKeys : Mv_Upload(key)
    \/ Ld_List
    \/ \E key \in uploaded, ctx \in BOOLEAN, ts \in Stamps : Mv_Start(key, ctx, ts)
    \/ Mv_Head
    \/ Mv_Copy
    \/ Mv_Metadata
    \/ Mv_Delete
    \/ Mv_Verify
    \/ Mv_Done

\* an empty bucket and no invocation yet; the other components idle
InitMove ==
    /\ text = <<>> /\ chunk_size = 1 /\ chunk_overlap = 0
    /\ separator = <<>> /\ splits = <<>> /\ split_idx = 0
    /\ current_chunk = <<>> /\ win_i = 0 /\ out_chunks = <<>>
    /\ ck_pc = "idle"
    /\ id_reqs = <<>>
    /\ id_out = <<>>
    /\ sv_chunks = [r \in SvRuns |-> <<>>]
    /\ batch_size = [r \in SvRuns |-> 1]
    /\ batch_idx = [r \in SvRuns |-> 0]
    /\ stored_count = [r \in SvRuns |-> 0]
    /\ failed_count = [r \in SvRuns |-> 0]
    /\ batch_log = [r \in SvRuns |-> <<>>]
    /\ sv_rate = [r \in SvRuns |-> -1]
    /\ sv_pc = [r \in SvRuns |-> "off"]
    /\ collection_exists = FALSE
    /\ points = <<>>
    /\ source = {} /\ processed = {} /\ file_keys = <<>>
    /\ filtered_chunks = <<>> /\ ix_i = 0 /\ ix_move = 0
    /\ ix_points = <<>> /\ ix_log = <<>> /\ ix_pc = "off" /\ run_hist = <<>>
    /\ ge_chunks = <<>> /\ ge_batch_size = 1 /\ ge_batch_idx = 0
    /\ chunks_with_embeddings = <<>> /\ ge_calls = <<>> /\ ge_pc = "off"
    /\ rag_service = FALSE /\ ch_app = "none" /\ ch_event = <<>>
    /\ ch_hits = <<>> /\ ch_sources = <<>> /\ ch_llm_ctx = <<>>
    /\ ch_exc = "none" /\ ch_response = <<>> /\ ch_pc = "off" /\ ch_calls = 0
    /\ time_bound = FALSE /\ openai_client = FALSE /\ qdrant_client = FALSE
    /\ health_status = <<>> /\ hc_probes = <<>> /\ hc_response = <<>>
    /\ hc_pc = "off" /\ hc_calls = 0
    /\ bucket = {} /\ uploaded = {} /\ copied = {} /\ document_key = <<>>
    /\ has_request_id = FALSE /\ timestamp = <<>> /\ processed_key = <<>>
    /\ time_local = FALSE /\ mv_pc = "idle" /\ new_documents = {}
    /\ ld_exit = "none" /\ mv_calls = 0 /\ ld_calls = 0
    /\ db_rows = <<>> /\ now = 0 /\ hist_conv = "none" /\ chat_history = <<>>
    /\ redis_cache = [q \in Questions |-> "nil"]
    /\ standalone_question = "none" /\ cached_response = "nil" /\ fa_trace = <<>>

SpecMove == InitMove /\ [][MoveNext]_vars

\* C27: once move_processed has copied a document to the processed prefix, a
\* later run of list_documents does not return it as a new document, whether
\* or not the source object was deleted.
C27_CopiedNotListedAgain ==
    [][(ld_calls' = ld_calls + 1) => new_documents' \cap copied = {}]_vars

\* a document whose source object was deleted after the copy is not listed
C27_MovedNotListedAgain ==
    [][(ld_calls' = ld_calls + 1) =>
          \A key \in new_documents' \cap copied : key \in bucket]_vars

(* ------------------- save_chat_history, get_chat_history ---------------- *)

\* the largest number of exchanges saved and the last second of the clock
MaxExchanges == 3

MaxClock == 3

db_others == <<ckvars, idvars, svvars, ixvars, gevars, chvars, hcvars, mvvars, favars>>

\* a second passes
Db_Tick ==
    /\ now < MaxClock
    /\ now' = now + 1
    /\ UNCHANGED <<db_rows, hist_conv, chat_history>>
    /\ UNCHANGED db_others

\* save_chat_history for the next exchange of a conversation; question and
\* answer are told apart by the number of the exchange
Db_Save(conv) ==
    /\ Len(db_rows) < 2 * MaxExchanges
    /\ LET n == (Len(db_rows) \div 2) + 1
       IN  db_rows' = save_chat_history(db_rows, conv, now, <<"q", n>>, <<"a", n>>)
    /\ UNCHANGED <<now, hist_conv, chat_history>>
    /\ UNCHANGED db_others

\* get_chat_history for a conversation
Db_Get(conv) ==
    /\ hist_conv' = conv
    /\ chat_history' \in get_chat_history(db_rows, conv)
    /\ UNCHANGED <<db_rows, now>>
    /\ UNCHANGED db_others

HistoryNext ==
    \/ Db_Tick
    \/ \E conv \in Conversations : Db_Save(conv)
    \/ \E conv \in Conversations : Db_Get(conv)

\* an empty table at second 0; the other components idle
InitHistory ==
    /\ text = <<>> /\ chunk_size = 1 /\ chunk_overlap = 0
    /\ separator = <<>> /\ splits = <<>> /\ split_idx = 0
    /\ current_chunk = <<>> /\ win_i = 0 /\ out_chunks = <<>>
    /\ ck_pc = "idle"
    /\ id_reqs = <<>>
    /\ id_out = <<>>
    /\ sv_chunks = [r \in SvRuns |-> <<>>]
    /\ batch_size = [r \in SvRuns |-> 1]
    /\ batch_idx = [r \in SvRuns |-> 0]
    /\ stored_count = [r \in SvRuns |-> 0]
    /\ failed_count = [r \in SvRuns |-> 0]
    /\ batch_log = [r \in SvRuns |-> <<>>]
    /\ sv_rate = [r \in SvRuns |-> -1]
    /\ sv_pc = [r \in SvRuns |-> "off"]
    /\ collection_exists = FALSE
    /\ points = <<>>
    /\ source = {} /\ processed = {} /\ file_keys = <<>>
    /\ filtered_chunks = <<>> /\ ix_i = 0 /\ ix_move = 0
    /\ ix_points = <<>> /\ ix_log = <<>> /\ ix_pc = "off" /\ run_hist = <<>>
    /\ ge_chunks = <<>> /\ ge_batch_size = 1 /\ ge_batch_idx = 0
    /\ chunks_with_embeddings = <<>> /\ ge_calls = <<>> /\ ge_pc = "off"
    /\ rag_service = FALSE /\ ch_app = "none" /\ ch_event = <<>>
    /\ ch_hits = <<>> /\ ch_sources = <<>> /\ ch_llm_ctx = <<>>
    /\ ch_exc = "none" /\ ch_response = <<>> /\ ch_pc = "off" /\ ch_calls = 0
    /\ time_bound = FALSE /\ openai_client = FALSE /\ qdrant_client = FALSE
    /\ health_status = <<>> /\ hc_probes = <<>> /\ hc_response = <<>>
    /\ hc_pc = "off" /\ hc_calls = 0
    /\ bucket = {} /\ uploaded = {} /\ copied = {} /\ document_key = <<>>
    /\ has_request_id = FALSE /\ timestamp = <<>> /\ processed_key = <<>>
    /\ time_local = FALSE /\ mv_pc = "off" /\ new_documents = {}
    /\ ld_exit = "none" /\ mv_calls = 0 /\ ld_calls = 0
    /\ db_rows = <<>> /\ now = 0 /\ hist_conv = "none" /\ chat_history = <<>>
    /\ redis_cache = [q \in Questions |-> "nil"]
    /\ standalone_question = "none" /\ cached_response = "nil" /\ fa_trace = <<>>

SpecHistory == InitHistory /\ [][HistoryNext]_vars

\* the turns of a result come in the order they were saved
InSavedOrder(h) == \A i, j \in 1..Len(h) : i < j => h[i].id < h[j].id

\* the exchanges of a conversation were saved at least two seconds apart
SpacedExchanges(conv) ==
    \A i, j \in 1..Len(db_rows) :
        (/\ i < j
         /\ db_rows[i].conversation_id = conv /\ db_rows[j].conversation_id = conv
         /\ db_rows[i].role = "user" /\ db_rows[j].role = "user")
            => db_rows[j].timestamp >= db_rows[i].timestamp + 2

\* C28: whatever the times at which the exchanges of a conversation were
\* saved, get_chat_history returns its turns in the order they were saved:
\* each user turn directly before its own assistant turn, the exchanges in
\* the order they happened.
C28_HistoryInSavedOrder == InSavedOrder(chat_history)

\* the order is the saved one where the exchanges lie two seconds apart
C28_OrderedWhenSpaced ==
    [][\A conv \in Conversations :
          (hist_conv' = conv /\ chat_history' /= chat_history /\ SpacedExchanges(conv))
              => InSavedOrder(chat_history')]_vars

(* ------------------------------- claims ------------------------------- *)
\* C1: with 0 <= overlap < maxSize, every chunk the chunker returns has
\* length <= maxSize, on the separator path and on the character fallback.
C1_ChunkSizeBound ==
    (ck_pc = "done" /\ chunk_overlap < chunk_size) =>
        \A k \in 1..Len(out_chunks) : Len(out_chunks[k]) <= chunk_size

\* the runs of the pipeline that made every call with success
FullRun(h) == h.exit = "finished" /\ h.ok

IdTriple(k) ==
    <<BaseName(id_reqs[k].key), id_reqs[k].i, Slice(id_reqs[k].text, 1, 50)>>

\* C3: two requests get the same string for the digest exactly when they
\* agree on the file name, on the index and on the first 50 characters.
C3_IdInjectiveOnTriples ==
    Len(id_out) = 2 => ((IdTriple(1) = IdTriple(2)) <=> (id_out[1] = id_out[2]))

CeilDiv(n, b) == (n + b - 1) \div b

\* C4: after the batches, store_vectors raises the storage failure exactly
\* when the share of stored records is below 0.8 (the share of an empty
\* event counts as 0), and returns otherwise, also at exactly 0.8 and with
\* failed records.
C4_SuccessRateThreshold ==
    \A r \in SvRuns :
        sv_pc[r] \in {"returned", "raised_storage"} =>
            (sv_pc[r] = "raised_storage"
                <=> (Len(sv_chunks[r]) = 0
                       \/ 5 * stored_count[r] < 4 * Len(sv_chunks[r])))

C4_Witness ==
    \E r \in SvRuns :
        /\ sv_pc[r] = "returned"
        /\ failed_count[r] > 0
        /\ 5 * stored_count[r] = 4 * Len(sv_chunks[r])

RECURSIVE SumSizes(_, _)
SumSizes(log, outs) ==
    IF log = <<>> THEN 0
    ELSE (IF Head(log).outcome \in outs THEN Head(log).size ELSE 0)
         + SumSizes(Tail(log), outs)

\* C5: an exception in a batch of store_vectors does not leave the loop: the
\* batches are attempted one after the other, all of them, the failed ones
\* counted in failed_count by their size, and stored_count holds the sizes
\* of the batches whose upsert reported completion, and nothing else.
C5_BatchExceptionContained ==
    \A r \in SvRuns :
        LET n == Len(sv_chunks[r])
            b == batch_size[r]
            log == batch_log[r]
        IN  /\ sv_pc[r] \in {"off", "setup", "create", "loop", "returned",
                             "raised_storage", "raised_setup", "raised_conflict"}
            /\ \A k \in 1..Len(log) :
                  /\ log[k].idx = (k - 1) * b
                  /\ log[k].size = MinOf(b, n - log[k].idx)
            /\ sv_pc[r] \in {"returned", "raised_storage"} => Len(log) = CeilDiv(n, b)
            /\ failed_count[r] = SumSizes(log, BatchOutcomes \ {"completed"})
            /\ stored_count[r] = SumSizes(log, {"completed"})

C5_Witness ==
    \E r \in SvRuns :
        /\ sv_pc[r] \in {"returned", "raised_storage"}
        /\ Len(batch_log[r]) >= 3
        /\ batch_log[r][1].outcome = "build_exception"
        /\ batch_log[r][2].outcome = "upsert_exception"
        /\ batch_log[r][3].outcome = "completed"
        /\ stored_count[r] = batch_log[r][3].size

\* the outcome of the batch that held the k-th filtered chunk
OutcomeOfChunk(k) == ix_log[((k - 1) \div IxBatchSize) + 1].outcome

\* a file none of whose chunks went through, or that gave no chunk at all
NotStored(f) ==
    LET mine == {k \in 1..Len(filtered_chunks) : filtered_chunks[k].source = f}
    IN  mine = {} \/ \E k \in mine : OutcomeOfChunk(k) /= "ok"

\* C6: when a run has ended, a listed file whose batches failed or were
\* skipped, or that was never chunked, is still under the source prefix.
C6_MovedOnlyIfStored ==
    (ix_pc = "idle" /\ run_hist /= <<>>) =>
        \A k \in 1..Len(file_keys) :
            NotStored(file_keys[k]) => file_keys[k] \in source

\* the identifiers of the k-th batch of the run
BatchIds(k) ==
    LET pts == batch_points(filtered_chunks, (k - 1) * IxBatchSize)
    IN  {pts[j].id : j \in 1..Len(pts)}

LastN(s, n) == SubSeq(s, Len(s) - n + 1, Len(s))

\* C8: on the separator path with overlap > 0, when a piece does not fit the
\* buffer, the next buffer is the last min(overlap, len) characters of the
\* untrimmed buffer followed by that piece.
C8_OverlapSeed ==
    [][ (/\ ck_pc = "sep"
         /\ split_idx <= Len(splits)
         /\ chunk_overlap > 0
         /\ Len(current_chunk \o split_with_sep(splits, separator, split_idx)) > chunk_size)
        => current_chunk' =
             LastN(current_chunk, MinOf(chunk_overlap, Len(current_chunk)))
             \o split_with_sep(splits, separator, split_idx) ]_vars

\* a buffer that ended in whitespace was closed, and the next buffer took its
\* overlap from it
C8_Witness ==
    /\ ck_pc = "sep"
    /\ chunk_overlap > 0
    /\ Len(out_chunks) = 1
    /\ split_idx = 3
    /\ Len(current_chunk) > Len(split_with_sep(splits, separator, 2))
    /\ Head(current_chunk) \in Whitespace

\* C9: no returned chunk is empty or blank, and a blank text gives no chunk.
C9_NoBlankChunk ==
    /\ \A k \in 1..Len(out_chunks) : Strip(out_chunks[k]) /= <<>>
    /\ (ck_pc \notin {"idle", "start"} /\ Strip(text) = <<>>) =>
          (ck_pc = "done" /\ out_chunks = <<>>)

C9_Witness ==
    /\ ck_pc = "done"
    /\ Len(out_chunks) >= 2
    /\ \E k \in 1..Len(splits) : splits[k] /= <<>> /\ Strip(splits[k]) = <<>>

C16_FallbackTerminates ==
    (/\ Strip(text) /= <<>>
     /\ Len(text) > chunk_size
     /\ UsableSeparators(text) = {}) =>
        /\ ck_pc /= "raised"
        /\ ck_pc = "done" => out_chunks /= <<>>

\* C17: a text that is not blank and no longer than maxSize comes back as
\* exactly one chunk, the text without its leading and trailing whitespace.
C17_ShortTextTrimmed ==
    (ck_pc = "done" /\ Strip(text) /= <<>> /\ Len(text) <= chunk_size) =>
        out_chunks = <<Strip(text)>>

\* the chunks the run loaded from the listed files, before the filter
LoadedChunks == all_documents(file_keys)

\* C18 as stated: the filter passes a chunk exactly when its trimmed length
\* is not below 20 characters and it does not carry the error marker.
C18_FilterAtLeast20 ==
    LET pass(c) == /\ Len(Strip(c.page_content)) >= 20
                   /\ ~StartsWith(c.page_content, ErrorMarker)
    IN  filtered_chunks = SelectSeq(LoadedChunks, pass)

\* C18 as amended: the filter passes a chunk exactly when its trimmed length
\* is above 20 characters (21 or more) and its text does not start with the
\* error marker; the chunks handed to the batch loop are these, in order.
C18_FilterAbove20 ==
    LET pass(c) == /\ Len(Strip(c.page_content)) > 20
                   /\ ~StartsWith(c.page_content, ErrorMarker)
    IN  filtered_chunks = SelectSeq(LoadedChunks, pass)

\* a run reached the batch loop after the filter dropped a chunk of exactly
\* 20 characters and kept one of 21
C18_Witness ==
    /\ ix_pc = "batch"
    /\ \E k \in 1..Len(LoadedChunks) :
          /\ Len(Strip(LoadedChunks[k].page_content)) = 20
          /\ \A j \in 1..Len(filtered_chunks) : filtered_chunks[j] /= LoadedChunks[k]
    /\ \E j \in 1..Len(filtered_chunks) : Len(filtered_chunks[j].page_content) = 21

\* the invocations of store_vectors that ran to their end
SvEnded(r) == sv_pc[r] \in {"returned", "raised_storage"}

\* C19: with no record to store the success rate is computed as 0, by the
\* guard of the conditional and not by a division: the handler leaves the
\* loop at once and ends in one of its two regular ways.
C19_ZeroTotalRate ==
    \A r \in SvRuns :
        Len(sv_chunks[r]) = 0 =>
            /\ sv_pc[r] \in {"off", "setup", "create", "loop", "returned",
                             "raised_storage", "raised_setup", "raised_conflict"}
            /\ SvEnded(r) => sv_rate[r] = 0 /\ batch_log[r] = <<>>

\* an invocation on an event without chunks ran to its end
C19_Witness ==
    /\ Len(sv_chunks[1]) = 0
    /\ SvEnded(1)
    /\ sv_rate[1] = 0

\* the chunk of the shared document that carries identifier x
ChunkWithId(x) == CHOOSE k \in 1..Len(sv_chunks[1]) : sv_chunks[1][k].id = x

\* the identifiers of the batch a log entry of invocation r stands for
LoggedIds(r, e) ==
    {sv_chunks[r][k].id : k \in (e.idx + 1)..MinOf(e.idx + e.size, Len(sv_chunks[r]))}

\* C15: whatever the interleaving of the batches of two invocations on the
\* same document, the collection holds at most one record per chunk
\* identifier, each with the payload of its chunk; the records of a batch
\* that reported completion are never lost to the other invocation; and once
\* an invocation has stored all its batches the collection holds exactly the
\* identifiers of a single run.
C15_ConcurrentUpsertsSafe ==
    LET all_ids == {sv_chunks[1][k].id : k \in 1..Len(sv_chunks[1])}
    IN  /\ DOMAIN points \subseteq all_ids
        /\ \A x \in DOMAIN points : points[x] = sv_chunks[1][ChunkWithId(x)].text
        /\ \A r \in SvRuns : \A k \in 1..Len(batch_log[r]) :
              batch_log[r][k].outcome = "completed" =>
                  LoggedIds(r, batch_log[r][k]) \subseteq DOMAIN points
        /\ \A r \in SvRuns :
              (sv_pc[r] = "returned" /\ failed_count[r] = 0) =>
                  /\ DOMAIN points = all_ids
                  /\ Cardinality(DOMAIN points) = Len(sv_chunks[r])

\* both invocations stored every batch of a two-chunk document, the first one
\* chunk at a time and the second in one batch
C15_Witness ==
    /\ sv_pc[1] = "returned" /\ sv_pc[2] = "returned"
    /\ failed_count[1] = 0 /\ failed_count[2] = 0
    /\ Len(sv_chunks[1]) = 2
    /\ Len(batch_log[1]) = 2 /\ Len(batch_log[2]) = 1
    /\ Cardinality(DOMAIN points) = 2

\* the texts of the k-th of the consecutive slices of b chunks
ExpectedSlice(k, b) ==
    LET lo == (k - 1) * b
        size == MinOf(b, Len(ge_chunks) - lo)
    IN  [j \in 1..size |-> ge_chunks[lo + j].text]

\* C11: with a batch size b >= 1 the embedding function is called on the
\* consecutive disjoint slices of the chunk sequence, in order, each of b
\* chunks except possibly the last; a run in which no call failed made
\* exactly ceil(n/b) calls.
C11_BatchPartition ==
    (ge_batch_size >= 1 /\ ge_pc /= "off") =>
        LET n == Len(ge_chunks)
            b == ge_batch_size
        IN  /\ Len(ge_calls) <= CeilDiv(n, b)
            /\ \A k \in 1..Len(ge_calls) :
                  /\ ge_calls[k] = ExpectedSlice(k, b)
                  /\ k < CeilDiv(n, b) => Len(ge_calls[k]) = b
                  /\ k = CeilDiv(n, b) => Len(ge_calls[k]) = n - (k - 1) * b
                  /\ Len(ge_calls[k]) \in 1..b
            /\ ge_pc = "returned" => Len(ge_calls) = CeilDiv(n, b)

\* 45 chunks with a batch size of 30 went through in two calls, of 30 and 15
C11_Witness ==
    /\ ge_pc = "returned"
    /\ Len(ge_chunks) = 45 /\ ge_batch_size = 30
    /\ Len(ge_calls) = 2
    /\ Len(ge_calls[1]) = 30 /\ Len(ge_calls[2]) = 15

\* C12: generate_embeddings returns only a chunk list of the length and order
\* of its input, the k-th chunk being the k-th input chunk with the embedding
\* of its text; in every other case it raises.
C12_AllOrNothing ==
    /\ ge_pc \in {"off", "start", "loop", "returned", "raised"}
    /\ ge_pc = "returned" =>
          /\ Len(chunks_with_embeddings) = Len(ge_chunks)
          /\ \A k \in 1..Len(ge_chunks) :
                /\ chunks_with_embeddings[k].id = ge_chunks[k].id
                /\ chunks_with_embeddings[k].text = ge_chunks[k].text
                /\ chunks_with_embeddings[k].chunk_index = ge_chunks[k].chunk_index
                /\ chunks_with_embeddings[k].embedding = Embedding(ge_chunks[k].text)

\* a result of five chunks, embedded in three batches, was returned
C12_Witness ==
    /\ ge_pc = "returned"
    /\ Len(ge_calls) = 3
    /\ Len(chunks_with_embeddings) = 5

\* C13: no source that a retrieval search hands to its chat handler has a
\* score below the similarity threshold, in process_chat_request and in the
\* FastAPI chat_handler alike.
C13_ScoreThreshold ==
    \A k \in 1..Len(ch_sources) : ch_sources[k].score >= SIMILARITY_THRESHOLD

\* C14: when a search succeeds and returns nothing, the handler answers with
\* the fixed insufficient-information response at once and has made no chat
\* completion call, in process_chat_request and in the FastAPI chat_handler
\* alike.
C14_NoCompletionOnEmptySearch ==
    [][(/\ ch_pc \in {"lh_search", "fa_search"}
        /\ ch_exc' = "none"
        /\ ch_sources' = <<>>) =>
            /\ ch_pc' = "returned"
            /\ ch_response'.answer = "insufficient"
            /\ ch_llm_ctx' = <<>>]_vars

\* the exceptions that reach the outer except clause of lambda_handler
LhServerErrors ==
    {"service_init", "json_loads", "AttributeError", "embedding", "search",
     "chat_completion"}

\* C20: lambda_handler never raises; once it has returned, its response has
\* status code 500 and body status 'error' exactly when the service, the
\* parsing of the body or the processing of the request raised, 400 and
\* 'error' exactly when the validation raised ValueError, and 200 otherwise.
\* A body that does not decode gives 500, an empty query 400, unless the
\* service could not be set up.
C20_AlwaysResponds ==
    ch_app = "lambda" =>
        /\ ch_pc \in {"idle", "lh_front", "lh_embed", "lh_search", "lh_llm", "returned"}
        /\ ch_pc \in {"returned", "idle"} =>
              /\ ch_response.statusCode \in {200, 400, 500}
              /\ ch_response.statusCode = 500 <=> ch_exc \in LhServerErrors
              /\ ch_response.statusCode = 400 <=> ch_exc = "ValueError"
              /\ ch_response.statusCode = 200 <=> ch_exc = "none"
              /\ ch_response.statusCode \in {400, 500} => ch_response.status = "error"
              /\ (ch_event.httpMethod = "POST" /\ ch_exc /= "service_init") =>
                    /\ parse_raises(ch_event) => ch_response.statusCode = 500
                    /\ (ch_event.vtype = "dict" /\ ch_event.decodes
                           /\ ch_event.query \in {"absent", "blank"}) =>
                          ch_response.statusCode = 400

\* the handler answered 500 to a body that is no JSON
C20_Witness ==
    /\ ch_app = "lambda"
    /\ ch_pc = "returned"
    /\ ch_exc = "json_loads"
    /\ ch_response.statusCode = 500
    /\ ch_response.status = "error"

\* C24: in store_vectors every record of every batch gone through is counted
\* once, as stored or as failed: during the loop the two counters add up to
\* the records of the batches done, after it to the number of records.
C24_CountersAddUp ==
    \A r \in SvRuns :
        /\ sv_pc[r] = "loop" =>
              stored_count[r] + failed_count[r] = MinOf(batch_idx[r], Len(sv_chunks[r]))
        /\ SvEnded(r) => stored_count[r] + failed_count[r] = Len(sv_chunks[r])
        /\ stored_count[r] = SumSizes(batch_log[r], {"completed"})
        /\ failed_count[r] = SumSizes(batch_log[r], BatchOutcomes \ {"completed"})

\* an invocation ended after a stored batch, a batch with an unexpected
\* status and a batch that raised
C24_Witness ==
    /\ SvEnded(1)
    /\ \E i, j, k \in 1..Len(batch_log[1]) :
          /\ batch_log[1][i].outcome = "completed"
          /\ batch_log[1][j].outcome = "unexpected_status"
          /\ batch_log[1][k].outcome \in {"build_exception", "upsert_exception"}
    /\ stored_count[1] > 0 /\ failed_count[1] > stored_count[1]

\* C25: an invocation of store_vectors never fails its collection setup
\* because another invocation created the collection between its existence
\* check and its create call.
C25_SetupNeverConflicts ==
    \A r \in SvRuns : sv_pc[r] /= "raised_conflict"

\* the identifiers a document's chunks get when the chunks are numbered
\* within the document
DocLocalIds(f) ==
    {content_hash(BaseName(f), n, ChunksOf(f)[k].page_content) :
        n \in 0..(Len(ChunksOf(f)) - 1), k \in 1..Len(ChunksOf(f))}

\* C26: the identifiers of a document's chunks depend on the document only:
\* every point stored for a document carries an identifier made of its file
\* name, an index within the document and the chunk's text, so that the
\* collection never holds more points for a document than it has chunks,
\* whatever other documents were in the runs that stored it.
C26_IdsDependOnDocumentOnly ==
    \A f \in {FILE_A, FILE_B, FILE_E, FILE_N} :
        LET stored == {x \in DOMAIN ix_points : ix_points[x] = f}
        IN  /\ stored \subseteq DocLocalIds(f)
            /\ Cardinality(stored) <= Len(ChunksOf(f))

\* the positions at which chunk c occurs in text t
Occurrences(t, c) ==
    {p \in 1..(Len(t) - Len(c) + 1) : Slice(t, p, p + Len(c) - 1) = c}

\* the first position after k that holds a character that is no whitespace
\* (Len(t) + 1 when there is none)
NextContent(t, k) ==
    SetMin({p \in (k + 1)..Len(t) : t[p] \notin Whitespace} \cup {Len(t) + 1})

\* the ways of laying the first n chunks over the text, in order and without
\* a gap in the content: pairs of the start of the last chunk laid and of
\* the last position covered
RECURSIVE Layings(_, _, _)
Layings(t, cs, n) ==
    IF n = 0 THEN {<<1, 0>>}
    ELSE UNION {{<<p, MaxOf(prev[2], p + Len(cs[n]) - 1)>> :
                    p \in {q \in Occurrences(t, cs[n]) :
                              q >= prev[1] /\ q <= NextContent(t, prev[2])}} :
                prev \in Layings(t, cs, n - 1)}

\* the chunks, taken in order, are pieces of the text that leave out none of
\* its characters other than whitespace
CoversContent(t, cs) ==
    \E lay \in Layings(t, cs, Len(cs)) : NextContent(t, lay[2]) = Len(t) + 1

\* C30: with 0 <= overlap < maxSize the chunks returned are pieces of the
\* text, in the order of the text, and every character of the text that is
\* no whitespace lies in at least one of them, on the separator path and on
\* the character fallback.
C30_NoContentDropped ==
    (ck_pc = "done" /\ chunk_overlap < chunk_size) => CoversContent(text, out_chunks)

\* a text of full length was returned as at least two chunks that overlap,
\* its only whitespace, if any, in the middle
C30_Witness ==
    /\ ck_pc = "done"
    /\ chunk_overlap > 0 /\ chunk_overlap < chunk_size
    /\ Len(out_chunks) >= 2
    /\ Len(text) = MaxTextLen
    /\ \A k \in 1..Len(text) : text[k] \notin Whitespace \/ k = 3

\* the entries of a sequence
Range(s) == {s[k] : k \in 1..Len(s)}

\* the calls of a request by name
CallsNamed(names) == {k \in 1..Len(fa_trace) : fa_trace[k].call \in names}

\* the request made no query-embedding, vector-search or answer-generation
\* call
NoRagCalls == CallsNamed({"embedding", "search", "chat_completion"}) = {}

\* C22: when the response cache holds an entry under the key of the question,
\* the FastAPI chat_handler returns that entry as the answer with source
\* 'cache' and makes no query-embedding, vector-search or answer-generation
\* call for that request.
C22_CacheHitServed ==
    (ch_app = "fastapi" /\ ch_pc = "returned" /\ cached_response /= "nil") =>
        /\ ch_response = Response(200, "cache", cached_response)
        /\ NoRagCalls

\* C22, as the code has it: when the read of the cache returns an entry that
\* is not the empty string, the handler makes no query-embedding,
\* vector-search or answer-generation call for that request, and returns the
\* entry with source 'cache' when the exchange was saved to the chat history,
\* an error answer when saving it raised.
C22_NonEmptyHitServed ==
    (ch_app = "fastapi" /\ ch_pc = "returned" /\ cached_response \notin {"nil", ""}) =>
        /\ NoRagCalls
        /\ ch_response = IF Call("save_chat_history", TRUE) \in Range(fa_trace)
                         THEN Response(200, "cache", cached_response)
                         ELSE Response(200, "error", "error")

\* a second request found the answer of the first in the cache and returned it
C22_Witness ==
    /\ ch_app = "fastapi" /\ ch_pc = "returned"
    /\ ch_calls = 2
    /\ cached_response = "llm_answer"
    /\ ch_response = Response(200, "cache", "llm_answer")
    /\ Len(db_rows) = 4

\* the query embedding or the vector search of the request raised
RetrievalFailed ==
    Call("embedding", FALSE) \in Range(fa_trace) \/ Call("search", FALSE) \in Range(fa_trace)

\* C23: when query embedding or vector search fails in the FastAPI
\* chat_handler, the handler returns normally with the error answer and
\* source 'error', makes no answer from partial results, and writes neither a
\* cache entry nor a chat-history record for that request.
C23_RetrievalFailureSurfaced ==
    (ch_app = "fastapi" /\ RetrievalFailed) =>
        /\ ch_pc \in {"returned", "idle"}
        /\ ch_response = Response(200, "error", "error")
        /\ CallsNamed({"chat_completion", "redis_setex", "save_chat_history"}) = {}
        /\ ch_llm_ctx = <<>>

\* the search of a request raised after its embedding had succeeded, the
\* cache and the table holding what an earlier request wrote
C23_Witness ==
    /\ ch_app = "fastapi" /\ ch_pc = "returned"
    /\ Call("embedding", TRUE) \in Range(fa_trace)
    /\ Call("search", FALSE) \in Range(fa_trace)
    /\ Len(db_rows) = 2
    /\ \E q \in Questions : redis_cache[q] /= "nil"

\* C29: the FastAPI chat_handler writes to the response cache only answers
\* produced by a successful language-model call; the fallback text built when
\* every model call fails, and error answers, are never stored in the cache.
C29_CacheHoldsLlmAnswersOnly ==
    \A q \in Questions : redis_cache[q] \in {"nil"} \cup LlmAnswers

\* the error answers are not stored in the cache
C29_NoErrorAnswerCached ==
    \A q \in Questions : redis_cache[q] \notin {"error", "key_missing", "models"}
============================================================================
